---------------------------- MODULE Spec2Model ----------------------------
(***************************************************************************)
(* Credit ledger of credit-tracker (internal/creditrepo/creditrepo.go).    *)
(*                                                                         *)
(* The store is a PostgreSQL database used at READ COMMITTED isolation.    *)
(* The model keeps the committed tables (grants, ops, opGrants) and, for   *)
(* every caller, the position of its ledger call together with the        *)
(* uncommitted writes and row locks of its transaction.  A ledger call is  *)
(* a chain of steps; a step is one or more consecutive statements of the   *)
(* handler between two points at which the transaction can wait for, or   *)
(* observe, another transaction (a row lock, a unique index, a read of    *)
(* committed rows).  Spec runs one caller, SpecConc two callers.  A call   *)
(* that returns leaves its outcome in last until the caller takes it.      *)
(*                                                                         *)
(* Grant ids are issued in creation order, so comparing ids realises the   *)
(* (created_at, id) tie-break of the ORDER BY clauses.                     *)
(*                                                                         *)
(* The CHECK (remaining_amount >= 0) of the grants table is not used to    *)
(* reject writes: every write goes through, and NoNegativeGrant shows that *)
(* the constraint can never fire.                                          *)
(***************************************************************************)
EXTENDS Integers, Sequences, FiniteSets, TLC

\* ---------------------------------------------------------------- bounds
MaxGrants == 2
MaxAmount == 2
MaxDeduct == 2
MaxTime == 1
MaxOps == 6
MaxEvents == 3
MaxAttempts == 4

\* ------------------------------------------------------- program constants
OperationTypeDeduction == "deduction"
OperationTypeRefund == "refund"
OperationTypeGrantPurchase == "grant_purchase"
OperationTypeGrantConfirm == "grant_confirm"
OperationTypeDebtSettlement == "debt_settlement"

GrantStatusPending == "pending"
GrantStatusConfirmed == "confirmed"
GrantStatusFailed == "failed"

CreditTrackerApp == "credit_tracker"

creditsFromBurn == 50000

\* ------------------------------------------------------------ input domains
Procs == {1, 2}
Month == 1
NoLog == -1
\* math.MaxInt64, scaled to a 31-bit word: the model checker's integers are
\* 32 bits wide and no amount of the model comes near either limit
MaxInt64 == 1073741823

\* the ledger: the committed tables, the clock, the callers' transactions
VARIABLES grants, ops, opGrants, nextId, now, tx, last

\* the components around the ledger: rpc is the position of every caller's
\* gRPC DeductCredits handler, stream the event stream and its consumer,
\* drv one run of the retry driver, created the created_at of the operations
VARIABLES rpc, stream, drv, created

ledger == <<grants, ops, opGrants, nextId, now, tx, last>>

around == <<rpc, stream, drv, created>>

vars == <<grants, ops, opGrants, nextId, now, tx, last, rpc, stream, drv, created>>

\* ------------------------------------------------------------------ helpers
Min(a, b) == IF a < b THEN a ELSE b

EmptyFn == [x \in {} |-> 0]

Range(s) == {s[i] : i \in DOMAIN s}

RECURSIVE SumSeq(_)
SumSeq(s) == IF s = <<>> THEN 0 ELSE Head(s) + SumSeq(Tail(s))

RECURSIVE SumOver(_, _)
SumOver(S, f) ==
    IF S = {} THEN 0
    ELSE LET x == CHOOSE y \in S : TRUE IN f[x] + SumOver(S \ {x}, f)

\* a table without a key the code reads is a bag of rows: row -> copies
RECURSIVE AddRows(_, _)
AddRows(B, rows) ==
    IF rows = <<>> THEN B
    ELSE LET r == Head(rows)
             B1 == IF r \in DOMAIN B
                   THEN [B EXCEPT ![r] = @ + 1]
                   ELSE [x \in DOMAIN B \cup {r} |-> IF x = r THEN 1 ELSE B[x]]
         IN AddRows(B1, Tail(rows))

\* expire on the same date in the next month
getExpirationDate(mintTime) == mintTime + Month

\* ------------------------------------------------------------ store queries
\* G is a grants table as one transaction sees it: id -> grant row.
\* a filter that leaves out license_id and asset_did
InPartitionOfAny(G, part) == DOMAIN G

\* WHERE license_id = $1 AND asset_did = $2
InPartition(G, part) == {g \in DOMAIN G : G[g].part = part}

\* a filter that also lets expired grants through
IsActiveWhenExpired(row, t) ==
    /\ row.status \in {GrantStatusConfirmed, GrantStatusPending}
    /\ row.remaining > 0

IsActive(row, t) ==
    /\ row.status \in {GrantStatusConfirmed, GrantStatusPending}
    /\ row.remaining > 0
    /\ row.expiresAt > t

HasDebt(row) == row.status = GrantStatusFailed /\ row.remaining < row.initial

ActiveSet(G, part, t) == {g \in InPartition(G, part) : IsActive(G[g], t)}

FailedSet(G, part) == {g \in InPartition(G, part) : HasDebt(G[g])}

\* an ORDER BY that leaves out expires_at
FifoLessByCreation(G, a, b) == a < b

\* ORDER BY expires_at ASC, created_at ASC, id ASC
FifoLess(G, a, b) ==
    \/ G[a].expiresAt < G[b].expiresAt
    \/ G[a].expiresAt = G[b].expiresAt /\ a < b

\* an ORDER BY created_at DESC, id DESC
CreatedLessNewestFirst(G, a, b) == a > b

\* ORDER BY created_at ASC, id ASC
CreatedLess(G, a, b) == a < b

RECURSIVE FifoOrder(_, _)
FifoOrder(S, G) ==
    IF S = {} THEN <<>>
    ELSE LET m == CHOOSE x \in S : \A y \in S \ {x} : FifoLess(G, x, y)
         IN <<m>> \o FifoOrder(S \ {m}, G)

RECURSIVE CreatedOrder(_, _)
CreatedOrder(S, G) ==
    IF S = {} THEN <<>>
    ELSE LET m == CHOOSE x \in S : \A y \in S \ {x} : CreatedLess(G, x, y)
         IN <<m>> \o CreatedOrder(S \ {m}, G)

getActiveGrants(G, part, t) == FifoOrder(ActiveSet(G, part, t), G)

\* a query that finds no failed grant
getFailedGrantsNone(G, part) == <<>>

getFailedGrants(G, part) == CreatedOrder(FailedSet(G, part), G)

\* a balance that sums initial_amount
calculateBalanceOfInitial(G, part, t) ==
    SumOver(ActiveSet(G, part, t), [g \in DOMAIN G |-> G[g].initial])

calculateBalance(G, part, t) ==
    SumOver(ActiveSet(G, part, t), [g \in DOMAIN G |-> G[g].remaining])

getOutstandingDebt(G, part) ==
    SumOver(FailedSet(G, part), [g \in DOMAIN G |-> G[g].initial - G[g].remaining])

OpKey(o) == <<o.app, o.ref, o.type>>

Keys(O) == {OpKey(o) : o \in O}

\* an empty stream and a consumer that has not claimed it yet
IdleStream == [msgs |-> <<>>, pos |-> 1, marked |-> {}, failed |-> {}, pc |-> "idle"]

\* the retry driver before RetryWithDeadlockHandling is called
IdleDrv ==
    [pc |-> "idle", attempt |-> 0, calls |-> 0, deadlocks |-> 0, late |-> 0,
     ctx |-> "-", entry |-> "-", out |-> "-", result |-> "-", err |-> "-"]

\* the gRPC DeductCredits handler of a caller that has no request at hand
IdleRpc ==
    [pc |-> "idle", part |-> "-", amount |-> 0, app |-> "-", ref |-> 0,
     txHash |-> "-", burns |-> 0, deducts |-> 0, result |-> "-", err |-> "-",
     pre |-> [balance |-> 0, debt |-> 0, ids |-> {}, failed |-> {}, replay |-> FALSE]]

\* ------------------------------------------------------------- transactions
IdleTx ==
    [pc |-> "idle", kind |-> "none", part |-> "-", amount |-> 0, app |-> "-",
     ref |-> 0, txHash |-> "-", logIndex |-> NoLog, mint |-> 0,
     mem |-> <<>>, w |-> EmptyFn, locks |-> {}, newOps |-> {},
     newRows |-> <<>>]

\* the outcome of the call that returned last
NoReturn ==
    [proc |-> 0, kind |-> "none", part |-> "-", ref |-> 0, result |-> "-", value |-> 0]

\* the grants table as transaction p sees it: committed rows and its own writes
View(p) ==
    [g \in DOMAIN grants \cup DOMAIN tx[p].w |->
        IF g \in DOMAIN tx[p].w THEN tx[p].w[g] ELSE grants[g]]

\* row locks that never make anyone wait
LockedByNobody(p, S) == FALSE

LockedByOther(p, S) == \E q \in Procs \ {p} : S \cap tx[q].locks # {}

KeyPendingElsewhere(p, key) == \E q \in Procs \ {p} : key \in Keys(tx[q].newOps)

\* a caller issues a new call while the ledger holds fewer than MaxOps operations
CanStart(p) == tx[p].pc = "idle" /\ Cardinality(ops) < MaxOps

\* the outcome of the previous call has been taken
Quiet == last = NoReturn

\* transaction p stands at the statement pc
At(p, pc) == Quiet /\ tx[p].pc = pc

\* a call returns: its transaction is gone, the caller sees result and value
Return(p, t, result, value) ==
    /\ tx' = [tx EXCEPT ![p] = IdleTx]
    /\ last' = [proc |-> p, kind |-> t.kind, part |-> t.part, ref |-> t.ref,
                result |-> result, value |-> value]

\* a commit that keeps the updates and drops the inserted rows
MergeUpdatesOnly(G, w) == [g \in DOMAIN G |-> IF g \in DOMAIN w THEN w[g] ELSE G[g]]

Merge(G, w) == [g \in DOMAIN G \cup DOMAIN w |-> IF g \in DOMAIN w THEN w[g] ELSE G[g]]

\* tx.Commit(): the transaction's writes become the committed rows
Commit(p, t) ==
    /\ grants' = Merge(grants, t.w)
    /\ ops' = ops \cup t.newOps
    /\ opGrants' = AddRows(opGrants, t.newRows)
    /\ Return(p, t, "ok", 0)

\* an error return that leaves the grant rows written so far in place
FailKeepsGrants(p, t, result, value) ==
    /\ Return(p, t, result, value)
    /\ grants' = Merge(grants, t.w)
    /\ UNCHANGED <<ops, opGrants>>

\* an error return: the deferred rollbackTx discards the transaction
Fail(p, t, result, value) ==
    /\ Return(p, t, result, value)
    /\ UNCHANGED <<grants, ops, opGrants>>

\* a primary key that admits a second row with the same key
KeyTakenInNever(t, key) == FALSE

\* PRIMARY KEY (app_name, reference_id, operation_type) of credit_operations
KeyTakenIn(t, key) == key \in Keys(ops) \cup Keys(t.newOps)

\* a call starts on an idle caller, or restarts with the same arguments
\* after RetryWithDeadlockHandling saw a deadlock error
Starts(p, kind) ==
    /\ Quiet
    /\ \/ CanStart(p)
       \/ tx[p].pc = "retry" /\ tx[p].kind = kind

ArgOK(p, field, v) == tx[p].pc = "retry" => tx[p][field] = v

\* ------------------------------------------------------------------- Deduct
\* a loop that takes the whole rest from the grant at hand
DeductionAmountNoMin(remainingToDeduct, grantRemaining) == remainingToDeduct

\* deductionAmount := min(remainingToDeduct, grant.RemainingAmount)
DeductionAmount(remainingToDeduct, grantRemaining) ==
    Min(remainingToDeduct, grantRemaining)

\* a loop that never lowers remainingToDeduct
RECURSIVE deductFromGrantsKeepsRest(_, _)
deductFromGrantsKeepsRest(mem, remainingToDeduct) ==
    IF mem = <<>> \/ remainingToDeduct <= 0 THEN <<>>
    ELSE LET deductionAmount == Min(remainingToDeduct, Head(mem).remaining)
         IN <<[grant |-> Head(mem).grant, take |-> deductionAmount,
               newAmount |-> Head(mem).remaining - deductionAmount]>>
            \o deductFromGrantsKeepsRest(Tail(mem), remainingToDeduct)

\* the FIFO loop of deductCreditsInternal over the rows read under lock
RECURSIVE deductFromGrants(_, _)
deductFromGrants(mem, remainingToDeduct) ==
    IF mem = <<>> \/ remainingToDeduct <= 0 THEN <<>>
    ELSE LET deductionAmount == DeductionAmount(remainingToDeduct, Head(mem).remaining)
             newGrantAmount == Head(mem).remaining - deductionAmount
         IN <<[grant |-> Head(mem).grant, take |-> deductionAmount,
               newAmount |-> newGrantAmount]>>
            \o deductFromGrants(Tail(mem), remainingToDeduct - deductionAmount)

\* a debt check that lets a debt of one unit pass
HasOutstandingDebtAboveOne(debt) == debt > 1

\* if debt > 0 { return ... outstanding debt }
HasOutstandingDebt(debt) == debt > 0

\* a balance check that lets every amount pass
InsufficientBalanceNever(currentBalance, amount) == FALSE

\* a balance check that is off by one
InsufficientBalanceOffByOne(currentBalance, amount) == currentBalance + 1 < amount

\* if currentBalance < amount { return ... InsufficientCreditsErr }
InsufficientBalance(currentBalance, amount) == currentBalance < amount

\* step 1: the debt check, before the transaction begins
DeductCredits(p, part, amount, app, ref) ==
    /\ Starts(p, "Deduct")
    /\ ArgOK(p, "part", part) /\ ArgOK(p, "amount", amount)
    /\ ArgOK(p, "app", app) /\ ArgOK(p, "ref", ref)
    /\ LET t == [IdleTx EXCEPT !.kind = "Deduct", !.part = part,
                               !.amount = amount, !.app = app, !.ref = ref]
           debt == getOutstandingDebt(grants, part)
       IN IF HasOutstandingDebt(debt)
          THEN Fail(p, t, "OutstandingDebt", debt)
          ELSE /\ tx' = [tx EXCEPT ![p] = [t EXCEPT !.pc = "deductLock"]]
               /\ UNCHANGED <<grants, ops, opGrants, last>>
    /\ UNCHANGED <<nextId, now>>

\* step 2: SELECT ... FOR UPDATE of the active grants and the balance check
DeductLock(p) ==
    /\ At(p, "deductLock")
    /\ LET t == tx[p]
           ids == getActiveGrants(grants, t.part, now)
           mem == [i \in DOMAIN ids |->
                      [grant |-> ids[i], used |-> 0, remaining |-> grants[ids[i]].remaining]]
           currentBalance == SumSeq([i \in DOMAIN mem |-> mem[i].remaining])
       IN /\ ~LockedByOther(p, Range(ids))
          /\ IF InsufficientBalance(currentBalance, t.amount)
             THEN Fail(p, t, "InsufficientCredits", currentBalance)
             ELSE /\ tx' = [tx EXCEPT ![p] = [t EXCEPT !.pc = "deductWrite",
                                                       !.mem = mem,
                                                       !.locks = Range(ids)]]
                  /\ UNCHANGED <<grants, ops, opGrants, last>>
    /\ UNCHANGED <<nextId, now>>

\* step 3: insert the operation, debit the grants, commit
DeductWrite(p) ==
    /\ At(p, "deductWrite")
    /\ LET t == tx[p]
           key == <<t.app, t.ref, OperationTypeDeduction>>
           operation == [app |-> t.app, ref |-> t.ref, type |-> OperationTypeDeduction,
                         part |-> t.part, total |-> t.amount]
           takes == deductFromGrants(t.mem, t.amount)
           w == [g \in {takes[i].grant : i \in DOMAIN takes} |->
                   LET i == CHOOSE j \in DOMAIN takes : takes[j].grant = g
                   IN [grants[g] EXCEPT !.remaining = takes[i].newAmount]]
           rows == [i \in DOMAIN takes |->
                      [app |-> t.app, ref |-> t.ref, type |-> OperationTypeDeduction,
                       grant |-> takes[i].grant, amount |-> -takes[i].take]]
       IN /\ ~KeyPendingElsewhere(p, key)
          /\ IF KeyTakenIn(t, key)
             THEN Fail(p, t, "AlreadyPerformed", 0)
             ELSE Commit(p, [t EXCEPT !.w = w, !.newOps = {operation}, !.newRows = rows])
    /\ UNCHANGED <<nextId, now>>

\* --------------------------------------------------------------- SettleDebt
\* inner loop of settleDebt: am is the in-memory remaining of the active grants
RECURSIVE settleFromActive(_, _, _)
settleFromActive(active, am, remainingToSettle) ==
    IF active = <<>> \/ remainingToSettle <= 0
    THEN [am |-> am, moved |-> <<>>, left |-> remainingToSettle]
    ELSE LET a == Head(active)
             availableAmount == Min(remainingToSettle, am[a])
         IN IF availableAmount <= 0
            THEN settleFromActive(Tail(active), am, remainingToSettle)
            ELSE LET r == settleFromActive(Tail(active),
                                           [am EXCEPT ![a] = @ - availableAmount],
                                           remainingToSettle - availableAmount)
                 IN [r EXCEPT !.moved = <<[grant |-> a, amount |-> availableAmount]>> \o @]

\* outer loop of settleDebt: fm is the in-memory remaining of the failed grants
RECURSIVE settleFailed(_, _, _, _, _)
settleFailed(failed, active, am, fm, initial) ==
    IF failed = <<>> THEN [am |-> am, fm |-> fm, moved |-> <<>>]
    ELSE LET f == Head(failed)
             grantDebt == initial[f] - fm[f]
         IN IF grantDebt <= 0
            THEN settleFailed(Tail(failed), active, am, fm, initial)
            ELSE LET s == settleFromActive(active, am, grantDebt)
                 IN IF s.left >= grantDebt
                    THEN [am |-> am, fm |-> fm, moved |-> <<>>]
                    ELSE LET amountSettled == grantDebt - s.left
                             newAmount == fm[f] + amountSettled
                             rest == settleFailed(Tail(failed), active, s.am,
                                                  [fm EXCEPT ![f] = newAmount], initial)
                         IN [rest EXCEPT !.moved =
                                s.moved \o <<[grant |-> f, amount |-> amountSettled]>> \o @]

\* first half of settleDebt, run at the end of the caller's write step:
\* the two reads and the insert of the debt_settlement operation
SettleOrCommit(p, t, appName, referenceID) ==
    LET debt == getOutstandingDebt(grants, t.part)
        balance == calculateBalance(Merge(grants, t.w), t.part, now)
        key == <<appName, referenceID, OperationTypeDebtSettlement>>
        operation == [app |-> appName, ref |-> referenceID,
                      type |-> OperationTypeDebtSettlement,
                      part |-> t.part, total |-> Min(debt, balance)]
    IN IF debt = 0 \/ balance = 0
       THEN Commit(p, t)
       ELSE /\ ~KeyPendingElsewhere(p, key)
            /\ IF KeyTakenIn(t, key)
               THEN Fail(p, t, "DuplicateKey", 0)
               ELSE /\ tx' = [tx EXCEPT ![p] = [t EXCEPT !.pc = "settle",
                                                         !.newOps = @ \cup {operation}]]
                    /\ UNCHANGED <<grants, ops, opGrants, last>>

\* second half of settleDebt and the commit of the calling action
SettleDebt(p) ==
    /\ At(p, "settle")
    /\ LET t == tx[p]
           V == View(p)
           operation == CHOOSE o \in t.newOps : o.type = OperationTypeDebtSettlement
           failedGrants == getFailedGrants(V, t.part)
           activeGrants == getActiveGrants(V, t.part, now)
           touched == Range(failedGrants) \cup Range(activeGrants)
           r == settleFailed(failedGrants, activeGrants,
                             [a \in Range(activeGrants) |-> V[a].remaining],
                             [f \in Range(failedGrants) |-> V[f].remaining],
                             [f \in Range(failedGrants) |-> V[f].initial])
           w == [g \in DOMAIN t.w \cup touched |->
                   IF g \in Range(activeGrants) THEN [V[g] EXCEPT !.remaining = r.am[g]]
                   ELSE IF g \in Range(failedGrants) THEN [V[g] EXCEPT !.remaining = r.fm[g]]
                   ELSE V[g]]
           rows == [i \in DOMAIN r.moved |->
                      [app |-> operation.app, ref |-> operation.ref,
                       type |-> OperationTypeDebtSettlement,
                       grant |-> r.moved[i].grant, amount |-> r.moved[i].amount]]
       IN /\ ~LockedByOther(p, touched)
          /\ Commit(p, [t EXCEPT !.w = w, !.newRows = @ \o rows])
    /\ UNCHANGED <<nextId, now>>


\* ------------------------------------------------------------------- Refund
\* a lookup that leaves out the reference_id
FindDeductionOfApp(appName, referenceID) ==
    {o \in ops : o.app = appName /\ o.type = OperationTypeDeduction}

\* getGrantsFromOperation, first query: the deduction operation of the key
FindDeduction(appName, referenceID) ==
    {o \in ops : OpKey(o) = <<appName, referenceID, OperationTypeDeduction>>}

\* getGrantsFromOperation, second query: every operation-grant row of
\* (app_name, reference_id) with its grant loaded by a plain SELECT
getGrantsFromOperation(appName, referenceID) ==
    LET rows == {r \in DOMAIN opGrants : r.app = appName /\ r.ref = referenceID}
        RECURSIVE Load(_)
        Load(R) ==
            IF R = {} THEN <<>>
            ELSE LET r == CHOOSE x \in R : \A y \in R : x.grant <= y.grant
                 IN [i \in 1..opGrants[r] |->
                        [grant |-> r.grant, used |-> r.amount,
                         remaining |-> grants[r.grant].remaining]]
                    \o Load(R \ {r})
    IN Load(rows)

\* a loop that returns after its first grant
refundGrantsFirstOnly(mem) ==
    IF mem = <<>> THEN <<>>
    ELSE <<[grant |-> Head(mem).grant, refund |-> -Head(mem).used,
            newAmount |-> Head(mem).remaining - Head(mem).used,
            overflow |-> FALSE]>>

\* a loop that copies amount_used into the refund row without negating it
refundGrantsSameSign(mem) ==
    [i \in DOMAIN mem |->
        [grant |-> mem[i].grant, refund |-> mem[i].used,
         newAmount |-> mem[i].remaining - mem[i].used, overflow |-> FALSE]]

\* the refund loop: every loaded grant is written as the value read plus the refund
RECURSIVE refundGrants(_)
refundGrants(mem) ==
    IF mem = <<>> THEN <<>>
    ELSE LET grantRefundAmount == -Head(mem).used
             newAmount == Head(mem).remaining + grantRefundAmount
         IN <<[grant |-> Head(mem).grant, refund |-> grantRefundAmount,
               newAmount |-> newAmount,
               overflow |-> newAmount < Head(mem).remaining]>>
            \o refundGrants(Tail(mem))

\* step 1: load the deduction and the grants it used
RefundCredits(p, app, ref) ==
    /\ Starts(p, "Refund")
    /\ ArgOK(p, "app", app) /\ ArgOK(p, "ref", ref)
    /\ LET t == [IdleTx EXCEPT !.kind = "Refund", !.app = app, !.ref = ref]
           found == FindDeduction(app, ref)
       IN IF found = {}
          THEN Fail(p, t, "ReferencedOperationNotFound", 0)
          ELSE LET deductOp == CHOOSE o \in found : TRUE
               IN /\ tx' = [tx EXCEPT ![p] =
                              [t EXCEPT !.pc = "refundWrite",
                                        !.part = deductOp.part,
                                        !.amount = deductOp.total,
                                        !.mem = getGrantsFromOperation(app, ref)]]
                  /\ UNCHANGED <<grants, ops, opGrants, last>>
    /\ UNCHANGED <<nextId, now>>

\* step 2: insert the refund operation, credit the grants, start SettleDebt
RefundWrite(p) ==
    /\ At(p, "refundWrite")
    /\ LET t == tx[p]
           key == <<t.app, t.ref, OperationTypeRefund>>
           operation == [app |-> t.app, ref |-> t.ref, type |-> OperationTypeRefund,
                         part |-> t.part, total |-> t.amount]
           credits == refundGrants(t.mem)
           touched == {credits[i].grant : i \in DOMAIN credits}
           w == [g \in touched |->
                   LET i == CHOOSE j \in DOMAIN credits :
                               /\ credits[j].grant = g
                               /\ \A k \in DOMAIN credits : credits[k].grant = g => k <= j
                   IN [grants[g] EXCEPT !.remaining = credits[i].newAmount]]
           rows == [i \in DOMAIN credits |->
                      [app |-> t.app, ref |-> t.ref, type |-> OperationTypeRefund,
                       grant |-> credits[i].grant, amount |-> credits[i].refund]]
       IN /\ ~KeyPendingElsewhere(p, key)
          /\ IF KeyTakenIn(t, key)
             THEN Fail(p, t, "AlreadyPerformed", 0)
             ELSE /\ ~LockedByOther(p, touched)
                  /\ IF \E i \in DOMAIN credits : credits[i].overflow
                     THEN Fail(p, t, "ArithmeticOverflow", 0)
                     ELSE SettleOrCommit(p, [t EXCEPT !.w = w, !.locks = touched,
                                                      !.newOps = {operation},
                                                      !.newRows = rows],
                                         t.app, t.ref)
    /\ UNCHANGED <<nextId, now>>

\* -------------------------------------------------------------- CreateGrant
\* if creditAmount == 0 { return ... invalid amount }
InvalidAmount(creditAmount) == creditAmount = 0

\* a range check that lets every amount pass
AmountNeverTooLarge(creditAmount) == FALSE

\* if creditAmount > math.MaxInt64 { return ... credit amount is too large }
AmountTooLarge(creditAmount) == creditAmount > MaxInt64

CreateGrant(p, part, amount, txHash, mint, maxId) ==
    /\ Starts(p, "CreateGrant")
    /\ ArgOK(p, "part", part) /\ ArgOK(p, "amount", amount)
    /\ ArgOK(p, "txHash", txHash) /\ ArgOK(p, "mint", mint)
    /\ LET t == [IdleTx EXCEPT !.kind = "CreateGrant", !.part = part,
                               !.amount = amount, !.txHash = txHash, !.mint = mint]
       IN IF InvalidAmount(amount)
          THEN Fail(p, t, "InvalidAmount", 0) /\ UNCHANGED nextId
          ELSE IF AmountTooLarge(amount)
          THEN Fail(p, t, "AmountTooLarge", 0) /\ UNCHANGED nextId
          ELSE LET id == nextId
                   grant == [part |-> part, initial |-> amount, remaining |-> amount,
                             status |-> GrantStatusPending, txHash |-> txHash,
                             logIndex |-> NoLog,
                             expiresAt |-> getExpirationDate(mint)]
                   operation == [app |-> CreditTrackerApp, ref |-> id,
                                 type |-> OperationTypeGrantPurchase,
                                 part |-> part, total |-> amount]
                   opGrant == [app |-> CreditTrackerApp, ref |-> id,
                               type |-> OperationTypeGrantPurchase,
                               grant |-> id, amount |-> amount]
               IN /\ nextId <= maxId
                  /\ nextId' = nextId + 1
                  /\ SettleOrCommit(p, [t EXCEPT !.app = CreditTrackerApp, !.ref = id,
                                                 !.w = (id :> grant), !.locks = {id},
                                                 !.newOps = {operation},
                                                 !.newRows = <<opGrant>>],
                                    CreditTrackerApp, id)
    /\ UNCHANGED now


\* ------------------------------------------------------------- ConfirmGrant
\* a lookup that leaves out the tx_hash
PendingMatchesAnyHash(part, txHash) ==
    {g \in InPartition(grants, part) : grants[g].status = GrantStatusPending}

\* a lookup that leaves out the status
PendingMatchesAnyStatus(part, txHash) ==
    {g \in InPartition(grants, part) : grants[g].txHash = txHash}

\* the pending grants of the partition with the given tx_hash
PendingMatches(part, txHash) ==
    {g \in InPartition(grants, part) :
        grants[g].txHash = txHash /\ grants[g].status = GrantStatusPending}

\* unique index unique_confirmed_grants on (tx_hash, log_index)
ConfirmedElsewhere(G, id, txHash, logIndex) ==
    \E g \in DOMAIN G \ {id} : G[g].txHash = txHash /\ G[g].logIndex = logIndex

\* a record of the grant's own initial_amount
ConfirmedAmountOfGrant(row, amount) == row.initial

\* TotalAmount and AmountUsed of the grant_confirm records: the amount of
\* the confirmation event
ConfirmedAmount(row, amount) == amount

\* an update that also takes the amounts of the confirmation event
UpdateConfirmedWithAmount(row, logIndex, amount) ==
    [row EXCEPT !.logIndex = logIndex, !.status = GrantStatusConfirmed,
                !.initial = amount, !.remaining = amount]

\* the matched grant is updated with the whitelist (log_index, status,
\* updated_at); the event's amount is not written to it
UpdateConfirmed(row, logIndex, amount) ==
    [row EXCEPT !.logIndex = logIndex, !.status = GrantStatusConfirmed]

ConfirmGrant(p, part, txHash, logIndex, amount, mint, maxId) ==
    /\ Starts(p, "ConfirmGrant")
    /\ ArgOK(p, "part", part) /\ ArgOK(p, "amount", amount)
    /\ ArgOK(p, "txHash", txHash) /\ ArgOK(p, "mint", mint)
    /\ ArgOK(p, "logIndex", logIndex)
    /\ LET t == [IdleTx EXCEPT !.kind = "ConfirmGrant", !.part = part,
                               !.amount = amount, !.txHash = txHash,
                               !.logIndex = logIndex, !.mint = mint]
           matches == PendingMatches(part, txHash)
           found == matches # {}
           id == IF found
                 THEN CHOOSE g \in matches : \A h \in matches \ {g} : CreatedLess(grants, g, h)
                 ELSE nextId
           grant == IF found
                    THEN UpdateConfirmed(grants[id], logIndex, amount)
                    ELSE [part |-> part, initial |-> amount, remaining |-> amount,
                          status |-> GrantStatusConfirmed, txHash |-> txHash,
                          logIndex |-> logIndex,
                          expiresAt |-> getExpirationDate(mint)]
           key == <<CreditTrackerApp, id, OperationTypeGrantConfirm>>
           operation == [app |-> CreditTrackerApp, ref |-> id,
                         type |-> OperationTypeGrantConfirm,
                         part |-> part, total |-> ConfirmedAmount(grant, amount)]
           opGrant == [app |-> CreditTrackerApp, ref |-> id,
                       type |-> OperationTypeGrantConfirm,
                       grant |-> id, amount |-> ConfirmedAmount(grant, amount)]
           t2 == [t EXCEPT !.app = CreditTrackerApp, !.ref = id]
       IN IF InvalidAmount(amount)
          THEN Fail(p, t, "InvalidAmount", 0) /\ UNCHANGED nextId
          ELSE IF AmountTooLarge(amount)
          THEN Fail(p, t, "AmountTooLarge", 0) /\ UNCHANGED nextId
          ELSE /\ found => ~LockedByOther(p, {id})
               /\ ~found => nextId <= maxId
               /\ nextId' = IF found THEN nextId ELSE nextId + 1
               /\ \A q \in Procs \ {p} :
                     ~ConfirmedElsewhere(tx[q].w, id, txHash, logIndex)
               /\ IF ConfirmedElsewhere(grants, id, txHash, logIndex)
                  THEN Fail(p, t2, "DuplicateKey", 0)
                  ELSE /\ ~KeyPendingElsewhere(p, key)
                       /\ IF KeyTakenIn(t, key)
                          THEN Fail(p, t2, "DuplicateKey", 0)
                          ELSE SettleOrCommit(p, [t2 EXCEPT !.w = (id :> grant),
                                                           !.locks = {id},
                                                           !.newOps = {operation},
                                                           !.newRows = <<opGrant>>],
                                             CreditTrackerApp, id)
    /\ UNCHANGED now

\* --------------------------------------------------------------- GetBalance
getBalanceInternal(G, part, t) ==
    LET debt == getOutstandingDebt(G, part)
    IN IF debt < 0 THEN -debt ELSE calculateBalance(G, part, t)

GetBalance(p, part) ==
    /\ Quiet
    /\ CanStart(p)
    /\ Return(p, [IdleTx EXCEPT !.kind = "GetBalance", !.part = part],
              "ok", getBalanceInternal(grants, part, now))
    /\ UNCHANGED <<grants, ops, opGrants, nextId, now>>

\* -------------------------------------------------------------- environment
\* the chain reverted the burn of a pending grant: pending -> failed
FailGrant(g) ==
    /\ Quiet
    /\ g \in DOMAIN grants
    /\ grants[g].status = GrantStatusPending
    /\ \A q \in Procs : g \notin tx[q].locks
    /\ grants' = [grants EXCEPT ![g].status = GrantStatusFailed]
    /\ UNCHANGED <<ops, opGrants, nextId, now, tx, last>>
    /\ UNCHANGED around

\* time passes; grants expire when now reaches their expires_at
Tick(maxTime) ==
    /\ Quiet
    /\ now < maxTime
    /\ now' = now + 1
    /\ UNCHANGED <<grants, ops, opGrants, nextId, tx, last>>
    /\ UNCHANGED around

\* PostgreSQL detects the lock cycle of two settling transactions and aborts
\* one with error 40P01; RetryWithDeadlockHandling runs the call again
SettleNeeds(p) ==
    Range(getFailedGrants(View(p), tx[p].part))
        \cup Range(getActiveGrants(View(p), tx[p].part, now))

Deadlock(p) ==
    /\ At(p, "settle")
    /\ \E q \in Procs \ {p} :
          /\ tx[q].pc = "settle"
          /\ SettleNeeds(p) \cap tx[q].locks # {}
          /\ SettleNeeds(q) \cap tx[p].locks # {}
    /\ tx' = [tx EXCEPT ![p] = [@ EXCEPT !.pc = "retry", !.mem = <<>>, !.w = EmptyFn,
                                          !.locks = {}, !.newOps = {}, !.newRows = <<>>]]
    /\ UNCHANGED <<grants, ops, opGrants, nextId, now, last>>
    /\ UNCHANGED around

\* ------------------------------------------- gRPC DeductCredits (auto burn)
\* tmpFakeTx(): the hash of a transaction with a random nonce, new every time
BurnHashes == <<"b1", "b2", "b3", "b4">>

\* a burn transaction whose hash is the one other purchases carry
tmpFakeTxOfOthers == "h1"

tmpFakeTx == BurnHashes[nextId]

\* the handler returns to its client and keeps what it did for the record
RpcReturn(p, result) ==
    /\ rpc' = [rpc EXCEPT ![p] = [@ EXCEPT !.pc = "idle", !.result = result,
                                            !.err = IF result = "ok" THEN "-"
                                                    ELSE last.result]]
    /\ UNCHANGED <<stream, drv, created>>
    /\ last' = NoReturn
    /\ UNCHANGED <<grants, ops, opGrants, nextId, now, tx>>

\* the handler goes on to its next statement
RpcGoto(p, pc) ==
    /\ rpc' = [rpc EXCEPT ![p].pc = pc]
    /\ UNCHANGED <<stream, drv, created>>
    /\ last' = NoReturn
    /\ UNCHANGED <<grants, ops, opGrants, nextId, now, tx>>

\* the ledger call the handler waits for has returned
RpcGot(p, pc, kind) == rpc[p].pc = pc /\ last.proc = p /\ last.kind = kind

\* what the request finds: balance and debt of the partition, the grants
\* there are, the failed ones among them, and whether its key is recorded
Before(part, app, ref) ==
    [balance |-> calculateBalance(grants, part, now),
     debt |-> getOutstandingDebt(grants, part),
     ids |-> DOMAIN grants,
     failed |-> {g \in DOMAIN grants : grants[g].status = GrantStatusFailed},
     replay |-> <<app, ref, OperationTypeDeduction>> \in Keys(ops)]

\* a second attempt whose InsufficientCredits does not end the request
RetryFailedUnlessInsufficient(result) == result \notin {"ok", "InsufficientCredits"}

\* if err != nil { return ... Failed to deduct credits after burn }
RetryFailed(result) == result # "ok"

\* a loop that burns for every failure of the first attempt
BurnsOnAnyError(result) == result # "ok"

\* for errors.Is(err, creditrepo.InsufficientCreditsErr)
BurnsOn(result) == result = "InsufficientCredits"

\* a request arrives; first attempt to deduct credits
RpcDeductCredits(p, part, amount, app, ref) ==
    /\ rpc[p].pc = "idle"
    /\ tx[p].pc = "idle"
    /\ DeductCredits(p, part, amount, app, ref)
    /\ rpc' = [rpc EXCEPT ![p] = [IdleRpc EXCEPT !.pc = "deduct", !.part = part,
                                                  !.amount = amount, !.app = app,
                                                  !.ref = ref, !.deducts = 1,
                                                  !.pre = Before(part, app, ref)]]
    /\ UNCHANGED <<stream, drv, created>>

\* the outcome of the first attempt: the loop is entered on InsufficientCredits
RpcAfterDeduct(p) ==
    /\ RpcGot(p, "deduct", "Deduct")
    /\ IF BurnsOn(last.result) THEN RpcGoto(p, "burn")
       ELSE IF last.result = "ok" THEN RpcReturn(p, "ok")
       ELSE RpcReturn(p, "DeductFailed")

\* addBurnCredits, ContractProcessor.CreateGrant: the pending grant
RpcBurnCreate(p, maxId) ==
    /\ rpc[p].pc = "burn"
    /\ CreateGrant(p, rpc[p].part, creditsFromBurn, tmpFakeTx, now, maxId)
    /\ rpc' = [rpc EXCEPT ![p] = [@ EXCEPT !.pc = "burnCreate", !.txHash = tmpFakeTx,
                                            !.burns = @ + 1]]
    /\ UNCHANGED <<stream, drv, created>>

RpcAfterCreate(p) ==
    /\ RpcGot(p, "burnCreate", "CreateGrant")
    /\ IF last.result = "ok" THEN RpcGoto(p, "confirm")
       ELSE RpcReturn(p, "BurnFailed")

\* ContractProcessor.CreateGrant: handleDCXBurned with LogIndex 1
RpcBurnConfirm(p, maxId) ==
    /\ rpc[p].pc = "confirm"
    /\ ConfirmGrant(p, rpc[p].part, rpc[p].txHash, 1, creditsFromBurn, now, maxId)
    /\ rpc' = [rpc EXCEPT ![p].pc = "burnConfirm"]
    /\ UNCHANGED <<stream, drv, created>>

RpcAfterConfirm(p) ==
    /\ RpcGot(p, "burnConfirm", "ConfirmGrant")
    /\ IF last.result = "ok" THEN RpcGoto(p, "again")
       ELSE RpcReturn(p, "BurnFailed")

\* try again now that the developer should have credits
RpcDeductAgain(p) ==
    /\ rpc[p].pc = "again"
    /\ DeductCredits(p, rpc[p].part, rpc[p].amount, rpc[p].app, rpc[p].ref)
    /\ rpc' = [rpc EXCEPT ![p] = [@ EXCEPT !.pc = "deductAgain", !.deducts = @ + 1]]
    /\ UNCHANGED <<stream, drv, created>>

\* any error of the second attempt ends the request; after a success the
\* loop condition is evaluated again
RpcAfterDeductAgain(p) ==
    /\ RpcGot(p, "deductAgain", "Deduct")
    /\ IF RetryFailed(last.result) THEN RpcReturn(p, "DeductAfterBurnFailed")
       ELSE IF BurnsOn(last.result) THEN RpcGoto(p, "burn")
       ELSE RpcReturn(p, "ok")

\* ------------------------------------------------- GetLicenseUsageReport
\* time.Time{}: the zero time, before every time of the clock
ZeroTime == -1

\* the license of a partition (license_id, asset_did)
LicenseOf(part) == IF part \in {"A", "B"} THEN "L1" ELSE "L2"

OpenKeys(T, O) == Keys(O) \cup UNION {Keys(T[p].newOps) : p \in Procs}

\* CreatedAt: null.TimeFrom(time.Now()) of every operation row a step builds
Stamp ==
    created' = [k \in OpenKeys(tx', ops') |->
                   IF k \in DOMAIN created THEN created[k] ELSE now]

\* a window without its upper bound
InWindowNoUpperBound(createdAt, fromDate, toDate) == createdAt >= fromDate

\* created_at >= fromDate, and created_at <= toDate unless toDate is zero
InWindow(createdAt, fromDate, toDate) ==
    /\ createdAt >= fromDate
    /\ toDate # ZeroTime => createdAt <= toDate

\* creditSelect over the rows of the license in the window
creditSelect(rows) ==
    SumOver(rows, [o \in rows |-> IF o.type = OperationTypeDeduction THEN o.total ELSE 0])
    - SumOver(rows, [o \in rows |-> IF o.type = OperationTypeRefund THEN o.total ELSE 0])

GetLicenseUsageReport(p, licenseID, fromDate, toDate) ==
    /\ Quiet
    /\ tx[p].pc = "idle"
    /\ LET t == [IdleTx EXCEPT !.kind = "GetLicenseUsageReport"]
           rows == {o \in ops : /\ LicenseOf(o.part) = licenseID
                                /\ InWindow(created[OpKey(o)], fromDate, toDate)}
       IN IF fromDate = ZeroTime \/ licenseID = ""
          THEN Return(p, t, "Required", 0)
          ELSE IF toDate # ZeroTime /\ fromDate > toDate
          THEN Return(p, t, "FromAfterTo", 0)
          ELSE IF fromDate > now
          THEN Return(p, t, "FromInFuture", 0)
          ELSE Return(p, t, "ok", creditSelect(rows))
    /\ UNCHANGED <<grants, ops, opGrants, nextId, now>>
    /\ UNCHANGED around

\* ------------------------------------------------ RetryWithDeadlockHandling
\* what one invocation of the operation can return: nil, or an error
Outcomes == {"ok", "Deadlock", "DuplicateKey", "InsufficientCredits", "Other"}

\* the states of a context: live, cancelled, past its deadline
CtxDone == {"Canceled", "DeadlineExceeded"}

\* a check that sees a cancellation and overlooks a deadline
CtxErrOnlyCanceled(ctx) == ctx = "Canceled"

\* ctx.Err() != nil
CtxErr(ctx) == ctx \in CtxDone

\* a counter of the driver; the model stops counting above MaxAttempts
Count(n) == Min(n + 1, MaxAttempts + 1)

\* a test that takes no error for a deadlock
IsDeadlockErrorNever(err) == FALSE

\* a test that also takes a duplicate key for a deadlock
IsDeadlockErrorOrDuplicate(err) == err \in {"Deadlock", "DuplicateKey"}

\* errors.As(err, &pqErr) && pqErr.Code == DeadlockError
IsDeadlockError(err) == err = "Deadlock"

\* the caller enters RetryWithDeadlockHandling with the context it has
DrvCall(ctx) ==
    /\ drv.pc = "idle"
    /\ drv' = [IdleDrv EXCEPT !.pc = "top", !.ctx = ctx, !.entry = ctx]
    /\ UNCHANGED ledger
    /\ UNCHANGED <<rpc, stream, created>>

\* somebody cancels the context, or its deadline passes
DrvCancel(how) ==
    /\ drv.pc \notin {"idle", "done"}
    /\ drv.ctx = "live"
    /\ drv' = [drv EXCEPT !.ctx = how]
    /\ UNCHANGED ledger
    /\ UNCHANGED <<rpc, stream, created>>

\* return zero, err
DrvReturnCtxErr == [drv EXCEPT !.pc = "done", !.result = "zero", !.err = drv.ctx]

\* top of the loop: attempt++ and the check of ctx.Err()
DrvCheck ==
    /\ drv.pc = "top"
    /\ drv' = IF CtxErr(drv.ctx)
              THEN [DrvReturnCtxErr EXCEPT !.attempt = Count(@)]
              ELSE [drv EXCEPT !.pc = "call", !.attempt = Count(@)]
    /\ UNCHANGED ledger
    /\ UNCHANGED <<rpc, stream, created>>

\* result, lastErr = operation() and the two tests of lastErr
DrvInvoke(outcome) ==
    /\ drv.pc = "call"
    /\ LET d == [drv EXCEPT !.calls = Count(@), !.out = outcome,
                            !.late = IF drv.ctx \in CtxDone THEN Count(@) ELSE @]
       IN drv' = IF outcome = "ok"
                 THEN [d EXCEPT !.pc = "done", !.result = "value", !.err = "-"]
                 ELSE IF ~IsDeadlockError(outcome)
                 THEN [d EXCEPT !.pc = "done", !.result = "returned", !.err = outcome]
                 ELSE [d EXCEPT !.pc = "wait", !.deadlocks = Count(@)]
    /\ UNCHANGED ledger
    /\ UNCHANGED <<rpc, stream, created>>

\* select: case <-ctx.Done()
DrvWaitDone ==
    /\ drv.pc = "wait"
    /\ CtxErr(drv.ctx)
    /\ drv' = DrvReturnCtxErr
    /\ UNCHANGED ledger
    /\ UNCHANGED <<rpc, stream, created>>

\* select: case <-time.After(defaultWait)
DrvWaitOver ==
    /\ drv.pc = "wait"
    /\ drv' = [drv EXCEPT !.pc = "top"]
    /\ UNCHANGED ledger
    /\ UNCHANGED <<rpc, stream, created>>

\* ------------------------------------------------- ContractProcessor (events)
\* what the stream delivers: a message that is not a cloud event, a cloud
\* event of another type, or a contract event with the DCXBurned signature
Garbage == [kind |-> "garbage", part |-> "-", txHash |-> "-", logIndex |-> NoLog, amount |-> 0]

OtherEvent == [kind |-> "other", part |-> "-", txHash |-> "-", logIndex |-> NoLog, amount |-> 0]

DCXBurned(part, txHash, logIndex, amount) ==
    [kind |-> "burn", part |-> part, txHash |-> txHash, logIndex |-> logIndex,
     amount |-> amount]

\* the stream grows by one message
Produce(m) ==
    /\ Len(stream.msgs) < MaxEvents
    /\ stream' = [stream EXCEPT !.msgs = Append(@, m)]
    /\ UNCHANGED ledger
    /\ UNCHANGED <<rpc, drv, created>>

\* handleDCXBurned returned nil: the message is marked; otherwise the error
\* is logged and the loop continues with the next message
Marks(result) == result = "ok"

\* the consumer is done with the message at pos
Consumed(mark, fail) ==
    stream' = [stream EXCEPT !.pc = "idle", !.pos = @ + 1,
                             !.marked = IF mark THEN @ \cup {stream.pos} ELSE @,
                             !.failed = IF fail THEN @ \cup {stream.pos} ELSE @]

\* ConsumeClaim: the next message of the claim; a burn event is handed to
\* handleDCXBurned, which calls the ledger's ConfirmGrant
ConsumeClaim(p, maxId) ==
    /\ stream.pc = "idle"
    /\ stream.pos <= Len(stream.msgs)
    /\ tx[p].pc = "idle"
    /\ LET msg == stream.msgs[stream.pos]
       IN IF msg.kind = "garbage"
          THEN Consumed(FALSE, FALSE) /\ UNCHANGED ledger
          ELSE IF msg.kind = "other"
          THEN Consumed(TRUE, FALSE) /\ UNCHANGED ledger
          ELSE /\ ConfirmGrant(p, msg.part, msg.txHash, msg.logIndex, msg.amount, now, maxId)
               /\ stream' = [stream EXCEPT !.pc = "confirm"]
    /\ UNCHANGED <<rpc, drv, created>>

\* handleDCXBurned has returned
ConsumeAfterConfirm(p) ==
    /\ stream.pc = "confirm"
    /\ last.proc = p /\ last.kind = "ConfirmGrant"
    /\ Consumed(Marks(last.result), last.result # "ok")
    /\ last' = NoReturn
    /\ UNCHANGED <<grants, ops, opGrants, nextId, now, tx>>
    /\ UNCHANGED <<rpc, drv, created>>

\* ------------------------------------------------------------ specification
Init ==
    /\ grants = EmptyFn
    /\ ops = {}
    /\ opGrants = EmptyFn
    /\ nextId = 1
    /\ now = 0
    /\ tx = [p \in Procs |-> IdleTx]
    /\ last = NoReturn
    /\ rpc = [p \in Procs |-> IdleRpc]
    /\ stream = IdleStream
    /\ drv = IdleDrv
    /\ created = EmptyFn

\* the inputs the callers of one specification draw from
Dom(apps, parts, refs, amounts, deducts, hashes, logs, mints, maxId, maxTime) ==
    [apps |-> apps, parts |-> parts, refs |-> refs, amounts |-> amounts, deducts |-> deducts,
     hashes |-> hashes, logs |-> logs, mints |-> mints, maxId |-> maxId,
     maxTime |-> maxTime]

\* a step of a ledger call that a client issues on the repository directly
Step(p, D) ==
    \/ \E part \in D.parts, amount \in D.deducts, app \in D.apps, ref \in D.refs :
          DeductCredits(p, part, amount, app, ref) /\ UNCHANGED around
    \/ DeductLock(p) /\ UNCHANGED around
    \/ DeductWrite(p) /\ UNCHANGED around
    \/ \E app \in D.apps, ref \in D.refs : RefundCredits(p, app, ref) /\ UNCHANGED around
    \/ RefundWrite(p) /\ UNCHANGED around
    \/ \E part \in D.parts, amount \in D.amounts, txHash \in D.hashes, mint \in D.mints :
          CreateGrant(p, part, amount, txHash, mint, D.maxId) /\ UNCHANGED around
    \/ \E part \in D.parts, txHash \in D.hashes, logIndex \in D.logs,
          amount \in D.amounts, mint \in D.mints :
          ConfirmGrant(p, part, txHash, logIndex, amount, mint, D.maxId) /\ UNCHANGED around
    \/ SettleDebt(p) /\ UNCHANGED around
    \/ \E part \in D.parts : GetBalance(p, part) /\ UNCHANGED around

\* the caller takes the result of the call that just returned
Receive ==
    /\ last # NoReturn
    /\ last' = NoReturn
    /\ UNCHANGED <<grants, ops, opGrants, nextId, now, tx>>
    /\ UNCHANGED around

\* one caller: ledger calls never overlap
SeqDom == Dom({"api"}, {"A"}, {101, 102}, 0..MaxAmount, 1..MaxDeduct, {"h1"}, {1, 2}, {0, 1},
              MaxGrants, MaxTime)

Next ==
    \/ Step(1, SeqDom)
    \/ \E g \in 1..SeqDom.maxId : FailGrant(g)
    \/ Tick(SeqDom.maxTime)
    \/ Receive

Spec == Init /\ [][Next]_vars

\* two callers: ledger calls interleave statement by statement
ConcDom == Dom({"api"}, {"A"}, {101, 102}, 0..MaxAmount, 1..MaxDeduct, {"h1"}, {1}, {0},
               MaxGrants, 0)

NextConc ==
    \/ \E p \in Procs : Step(p, ConcDom)
    \/ \E p \in Procs : Deadlock(p)
    \/ \E g \in 1..ConcDom.maxId : FailGrant(g)
    \/ Receive

SpecConc == Init /\ [][NextConc]_vars

\* one caller that buys and confirms grants in two partitions under two
\* transaction hashes, with amounts from 0 to beyond the largest int64
GrantDom == Dom({"api"}, {"A", "B"}, {101}, (0..MaxAmount) \cup {MaxInt64 + 1}, {1},
                {"h1", "h2"}, {1, 2}, {0}, MaxGrants, 0)

NextGrant ==
    \/ Step(1, GrantDom)
    \/ \E g \in 1..GrantDom.maxId : FailGrant(g)
    \/ Receive

SpecGrant == Init /\ [][NextGrant]_vars

\* one caller whose app_name and reference_id can be the ones the ledger
\* itself uses for grant operations, ("credit_tracker", grant id), and who
\* also deducts the amount 0
AppsDom == Dom({"api", CreditTrackerApp}, {"A"}, {1, 101}, 1..MaxAmount, 0..MaxDeduct,
               {"h1"}, {1}, {0}, MaxGrants, 0)

NextApps ==
    \/ Step(1, AppsDom)
    \/ \E g \in 1..AppsDom.maxId : FailGrant(g)
    \/ Receive

SpecApps == Init /\ [][NextApps]_vars

\* one caller and a partition that is funded three times: a grant can be
\* bought against a debt and confirmed while the partition is in debt again
ResettleDom == Dom({"api"}, {"A"}, {101}, {1, MaxAmount}, {MaxDeduct}, {"h1"}, {1}, {0},
                   MaxGrants + 1, 0)

NextResettle ==
    \/ Step(1, ResettleDom)
    \/ \E g \in 1..ResettleDom.maxId : FailGrant(g)
    \/ Receive

SpecResettle == Init /\ [][NextResettle]_vars

\* two callers that buy and confirm grants of one tx_hash under two log
\* indexes: confirmations of the same grant overlap
ConfirmDom == Dom({"api"}, {"A"}, {101}, {1}, {1}, {"h1"}, {1, 2}, {0}, MaxGrants + 1, 0)

NextConfirm ==
    \/ \E p \in Procs : Step(p, ConfirmDom)
    \/ \E p \in Procs : Deadlock(p)
    \/ \E g \in 1..ConfirmDom.maxId : FailGrant(g)
    \/ Receive

SpecConfirm == Init /\ [][NextConfirm]_vars

\* one client of the gRPC server on a partition that other clients of the
\* repository fund with small grants; a request is served from call to return
RpcDom == Dom({"api"}, {"A"}, {101, 102}, 1..MaxAmount, {1, MaxDeduct, creditsFromBurn + 1},
              {"h1"}, {1}, {0}, MaxGrants, 0)

RpcIdle(p) == rpc[p].pc = "idle"

NextRpc ==
    \/ \E part \in RpcDom.parts, amount \in RpcDom.deducts, app \in RpcDom.apps,
          ref \in RpcDom.refs : RpcDeductCredits(1, part, amount, app, ref)
    \/ RpcAfterDeduct(1)
    \/ RpcBurnCreate(1, RpcDom.maxId)
    \/ RpcAfterCreate(1)
    \/ RpcBurnConfirm(1, RpcDom.maxId)
    \/ RpcAfterConfirm(1)
    \/ RpcDeductAgain(1)
    \/ RpcAfterDeductAgain(1)
    \/ DeductLock(1) /\ UNCHANGED around
    \/ DeductWrite(1) /\ UNCHANGED around
    \/ SettleDebt(1) /\ UNCHANGED around
    \/ \E part \in RpcDom.parts, amount \in RpcDom.amounts, txHash \in RpcDom.hashes,
          mint \in RpcDom.mints :
          RpcIdle(1) /\ CreateGrant(1, part, amount, txHash, mint, RpcDom.maxId)
                     /\ UNCHANGED around
    \/ \E app \in RpcDom.apps, ref \in RpcDom.refs :
          RpcIdle(1) /\ RefundCredits(1, app, ref) /\ UNCHANGED around
    \/ RefundWrite(1) /\ UNCHANGED around
    \/ RpcIdle(1) /\ Receive
    \/ \E g \in 1..RpcDom.maxId : FailGrant(g)

SpecRpc == Init /\ [][NextRpc]_vars

\* the confirmation adapter consumes a stream of up to MaxEvents messages
\* while a client of the repository buys pending grants
EventDom == Dom({"api"}, {"A"}, {101}, 0..1, {1}, {"h1", "h2"}, {1}, {0}, MaxGrants, 0)

NextEvents ==
    \/ Produce(Garbage)
    \/ Produce(OtherEvent)
    \/ \E part \in EventDom.parts, txHash \in EventDom.hashes, logIndex \in EventDom.logs,
          amount \in EventDom.amounts : Produce(DCXBurned(part, txHash, logIndex, amount))
    \/ ConsumeClaim(1, EventDom.maxId)
    \/ ConsumeAfterConfirm(1)
    \/ \E part \in EventDom.parts, txHash \in EventDom.hashes, mint \in EventDom.mints :
          CreateGrant(2, part, 1, txHash, mint, EventDom.maxId) /\ UNCHANGED around
    \/ last.proc = 2 /\ Receive

SpecEvents == Init /\ [][NextEvents]_vars

\* one caller deducts and refunds in two partitions of one license and one
\* of another while time passes, and asks for usage reports
ReportDom == Dom({"api"}, {"A", "B", "C"}, {101, 102}, {MaxAmount}, 1..MaxDeduct, {"h1"},
                 {1, 2}, {0}, MaxGrants, MaxTime)

Dates == {ZeroTime} \cup 0..(MaxTime + 1)

Stamped == Stamp /\ UNCHANGED <<rpc, stream, drv>>

NextReport ==
    \/ \E part \in ReportDom.parts, amount \in ReportDom.deducts, app \in ReportDom.apps,
          ref \in ReportDom.refs : DeductCredits(1, part, amount, app, ref) /\ Stamped
    \/ DeductLock(1) /\ Stamped
    \/ DeductWrite(1) /\ Stamped
    \/ \E app \in ReportDom.apps, ref \in ReportDom.refs : RefundCredits(1, app, ref) /\ Stamped
    \/ RefundWrite(1) /\ Stamped
    \/ \E part \in ReportDom.parts, amount \in ReportDom.amounts, txHash \in ReportDom.hashes,
          logIndex \in ReportDom.logs :
          ConfirmGrant(1, part, txHash, logIndex, amount, now, ReportDom.maxId) /\ Stamped
    \/ \E licenseID \in {"", "L1", "L2"}, fromDate \in Dates, toDate \in Dates :
          GetLicenseUsageReport(1, licenseID, fromDate, toDate)
    \/ Tick(ReportDom.maxTime)
    \/ Receive

SpecReport == Init /\ [][NextReport]_vars

\* one run of the retry driver over an operation that may return anything,
\* under a context that may be done at any time
NextRetry ==
    \/ \E ctx \in {"live"} \cup CtxDone : DrvCall(ctx)
    \/ \E how \in CtxDone : DrvCancel(how)
    \/ DrvCheck
    \/ \E outcome \in Outcomes : DrvInvoke(outcome)
    \/ DrvWaitDone
    \/ DrvWaitOver

\* the goroutine of the driver keeps running: the operation returns, the
\* timer of the backoff fires
SpecRetry ==
    /\ Init
    /\ [][NextRetry]_vars
    /\ WF_vars(DrvCheck)
    /\ WF_vars(\E outcome \in Outcomes : DrvInvoke(outcome))
    /\ WF_vars(DrvWaitDone \/ DrvWaitOver)

\* ------------------------------------------------------------------- claims
\* the step in which a call of the given kind, issued by caller p, returns
Returns(p, kind) == last = NoReturn /\ last'.proc = p /\ last'.kind = kind

Succeeds(p, kind) == Returns(p, kind) /\ last'.result = "ok"

\* the first step of a call of the given kind by caller p
StartsCall(p, kind) ==
    /\ Quiet
    /\ tx[p].pc \in {"idle", "retry"}
    /\ \/ tx'[p].pc \notin {"idle", "retry"} /\ tx'[p].kind = kind
       \/ last'.proc = p /\ last'.kind = kind

LedgerUnchanged == UNCHANGED <<grants, ops, opGrants>>

\* the partition's debt and active balance, as the specification defines them
SpecDebt(G, part) ==
    SumOver({g \in DOMAIN G : /\ G[g].part = part
                              /\ G[g].status = "failed"
                              /\ G[g].remaining < G[g].initial},
            [g \in DOMAIN G |-> G[g].initial - G[g].remaining])

SpecActive(G, part, t) ==
    {g \in DOMAIN G : /\ G[g].part = part
                      /\ G[g].status \in {"pending", "confirmed"}
                      /\ G[g].remaining > 0
                      /\ G[g].expiresAt > t}

SpecBalance(G, part, t) ==
    SumOver(SpecActive(G, part, t), [g \in DOMAIN G |-> G[g].remaining])

\* (expires_at, created_at, grant_id) of a precedes that of b
SpecBefore(G, a, b) ==
    \/ G[a].expiresAt < G[b].expiresAt
    \/ G[a].expiresAt = G[b].expiresAt /\ a < b

\* the operation-grant rows of one operation, and the sum of their amount_used
RowsOf(B, app, ref, type) ==
    {r \in DOMAIN B : r.app = app /\ r.ref = ref /\ r.type = type}

SumRows(B, R) == SumOver(R, [r \in R |-> r.amount * B[r]])

OpTypes == {o.type : o \in ops}

\* C1: in every reachable state of the two-caller ledger, every grant row,
\* committed or written by a transaction still in flight, has
\* remaining_amount >= 0
NoNegativeGrant ==
    /\ \A g \in DOMAIN grants : grants[g].remaining >= 0
    /\ \A p \in Procs : \A g \in DOMAIN tx[p].w : tx[p].w[g].remaining >= 0

\* a deduction, a refund and a debt settlement have run, a grant is drained
\* to 0 and a transaction in flight holds an uncommitted grant write
NoNegativeGrantWitness ==
    /\ {OperationTypeDeduction, OperationTypeRefund,
        OperationTypeDebtSettlement} \subseteq OpTypes
    /\ \E g \in DOMAIN grants : grants[g].remaining = 0
    /\ \E p \in Procs : tx[p].w # EmptyFn

\* C2: at most one operation row per (app_name, reference_id, operation_type),
\* and a Deduct or Refund that returns when its key is already used returns
\* AlreadyPerformed and leaves grants, operations and operation-grant rows as
\* they were
Idempotency ==
    [][/\ \A o1, o2 \in ops' : OpKey(o1) = OpKey(o2) => o1 = o2
       /\ \A p \in Procs :
            /\ (Returns(p, "Deduct")
                /\ <<"api", last'.ref, OperationTypeDeduction>> \in Keys(ops))
               => last'.result = "AlreadyPerformed" /\ LedgerUnchanged
            /\ (Returns(p, "Refund")
                /\ <<"api", last'.ref, OperationTypeRefund>> \in Keys(ops))
               => last'.result = "AlreadyPerformed" /\ LedgerUnchanged]_vars

\* C3: a successful Deduct debits a grant only if it was active at the time t
\* the deduction read the grants, and every grant active at t that precedes
\* it in (expires_at, created_at, id) order ends the deduction with
\* remaining_amount = 0
FifoDeduct ==
    [][\A p \in Procs :
          Succeeds(p, "Deduct") =>
             \E t \in 0..now :
                LET active == SpecActive(grants, tx[p].part, t)
                IN \A g \in DOMAIN grants :
                      grants'[g].remaining < grants[g].remaining =>
                         /\ g \in active
                         /\ \A h \in active :
                               SpecBefore(grants, h, g) => grants'[h].remaining = 0]_vars

\* one deduction of 2 has run: grant 2, created later but expiring first, is
\* drained and grant 1 is debited for the rest
FifoDeductWitness ==
    /\ last.kind = "Deduct" /\ last.result = "ok"
    /\ DOMAIN grants = {1, 2}
    /\ grants[2].expiresAt < grants[1].expiresAt
    /\ grants[2].initial = 1 /\ grants[2].remaining = 0
    /\ grants[1].initial = 2 /\ grants[1].remaining = 1
    /\ Cardinality({o \in ops : o.type = OperationTypeDeduction}) = 1

\* C4: GetBalance returns -debt when the partition's debt is > 0, and the sum
\* of remaining_amount over the active grants otherwise
BalanceReportsDebt ==
    (last.kind = "GetBalance") =>
        LET debt == SpecDebt(grants, last.part)
        IN last.value = IF debt > 0 THEN -debt
                        ELSE SpecBalance(grants, last.part, now)

\* C5: a Deduct called while the partition's debt is > 0 returns
\* OutstandingDebt(debt) in its first step and leaves grants, operations and
\* operation-grant rows unchanged, whatever the active balance
DebtBlocksDeduct ==
    [][\A p \in Procs :
          LET part == IF last' # NoReturn THEN last'.part ELSE tx'[p].part
              debt == SpecDebt(grants, part)
          IN (StartsCall(p, "Deduct") /\ debt > 0) =>
                /\ last'.proc = p
                /\ last'.result = "OutstandingDebt"
                /\ last'.value = debt
                /\ LedgerUnchanged]_vars

\* a Deduct was refused for debt although the active balance covers MaxDeduct
DebtBlocksDeductWitness ==
    /\ last.kind = "Deduct" /\ last.result = "OutstandingDebt"
    /\ last.value = SpecDebt(grants, last.part)
    /\ SpecBalance(grants, last.part, now) >= MaxDeduct

\* C6: a Deduct that reads an active balance smaller than its amount returns
\* InsufficientCredits with that balance and leaves grants, operations and
\* operation-grant rows unchanged
InsufficientBlocksDeduct ==
    [][\A p \in Procs :
          LET available == SpecBalance(grants, tx[p].part, now)
          IN (At(p, "deductLock") /\ tx'[p] # tx[p] /\ available < tx[p].amount) =>
                /\ last'.proc = p /\ last'.kind = "Deduct"
                /\ last'.result = "InsufficientCredits"
                /\ last'.value = available
                /\ LedgerUnchanged]_vars

\* a Deduct was refused although the partition holds an active grant: the
\* balance is positive and smaller than the amount
InsufficientBlocksDeductWitness ==
    /\ last.kind = "Deduct" /\ last.result = "InsufficientCredits"
    /\ last.value = 1
    /\ SpecBalance(grants, last.part, now) = 1
    /\ \E o \in ops : o.type = OperationTypeDeduction

PartGrants(part) == {g \in DOMAIN grants : grants[g].part = part}

SumRemaining(part) ==
    SumOver(PartGrants(part), [g \in DOMAIN grants |-> grants[g].remaining])

SumInitial(part) ==
    SumOver(PartGrants(part), [g \in DOMAIN grants |-> grants[g].initial])

SumUsed(part, type) ==
    SumRows(opGrants, {r \in DOMAIN opGrants :
                          r.type = type /\ r.grant \in PartGrants(part)})

NoPendingOrFailed(part) ==
    \A g \in PartGrants(part) : grants[g].status = "confirmed"

\* sum of initial - sum of |deduction rows| + sum of refund rows
Conserved(part) ==
    SumRemaining(part) = SumInitial(part) + SumUsed(part, OperationTypeDeduction)
                                          + SumUsed(part, OperationTypeRefund)

\* C8, as stated: in a partition without pending or failed grants GetBalance
\* returns the sum of remaining_amount over all its grants, and that sum is
\* sum of initial - sum of |deduction rows| + sum of refund rows
ConservationConfirmedWorld ==
    (last.kind = "GetBalance" /\ NoPendingOrFailed(last.part)) =>
        /\ last.value = SumRemaining(last.part)
        /\ Conserved(last.part)

\* C8, amended: in a partition without pending or failed grants the sum of
\* remaining_amount over all its grants is sum of initial - sum of |deduction
\* rows| + sum of refund rows, and GetBalance returns the part of that sum
\* held by the grants that have not expired
ConservationUnexpired ==
    /\ \A g \in DOMAIN grants :
          NoPendingOrFailed(grants[g].part) => Conserved(grants[g].part)
    /\ (last.kind = "GetBalance" /\ NoPendingOrFailed(last.part)) =>
          last.value =
             SumOver({g \in PartGrants(last.part) : grants[g].expiresAt > now},
                     [g \in DOMAIN grants |-> grants[g].remaining])

\* GetBalance ran after a deduction and its refund, in a partition of two
\* confirmed grants of which one has expired with credit left
ConservationUnexpiredWitness ==
    /\ last.kind = "GetBalance"
    /\ NoPendingOrFailed(last.part)
    /\ Cardinality(PartGrants(last.part)) = 2
    /\ {OperationTypeDeduction, OperationTypeRefund} \subseteq OpTypes
    /\ 0 < last.value /\ last.value < SumRemaining(last.part)

\* what a successful Refund by p inserts: the refund operation carries the
\* deduction's total_amount and its rows are the deduction's rows negated
RefundMirrors(p) ==
    LET t == tx[p]
        deduction == CHOOSE o \in ops :
                        OpKey(o) = <<t.app, t.ref, OperationTypeDeduction>>
        refund == [deduction EXCEPT !.type = OperationTypeRefund]
        used == RowsOf(opGrants, t.app, t.ref, OperationTypeDeduction)
        back == RowsOf(opGrants', t.app, t.ref, OperationTypeRefund)
    IN /\ \E o \in ops : OpKey(o) = <<t.app, t.ref, OperationTypeDeduction>>
       /\ refund \in ops' \ ops
       /\ RowsOf(opGrants, t.app, t.ref, OperationTypeRefund) = {}
       /\ back = {[r EXCEPT !.type = OperationTypeRefund, !.amount = -r.amount] :
                     r \in used}
       /\ \A r \in used :
             opGrants'[[r EXCEPT !.type = OperationTypeRefund,
                                 !.amount = -r.amount]] = opGrants[r]

\* what the deduction of p's Refund took from grant g
Taken(p, g) ==
    -SumRows(opGrants, {r \in RowsOf(opGrants, tx[p].app, tx[p].ref,
                                      OperationTypeDeduction) : r.grant = g})

\* the grants with a debt_settlement row of p's call
Settled(p) ==
    {r.grant : r \in RowsOf(opGrants', tx[p].app, tx[p].ref,
                            OperationTypeDebtSettlement)}

RefundNeedsDeduction ==
    [][\A p \in Procs :
          LET ref == IF last' # NoReturn THEN last'.ref ELSE tx'[p].ref
          IN (/\ StartsCall(p, "Refund")
              /\ ~\E o \in ops : OpKey(o) = <<"api", ref, OperationTypeDeduction>>)
             => /\ last'.proc = p
                /\ last'.result = "ReferencedOperationNotFound"
                /\ LedgerUnchanged]_vars

\* a Refund was refused while a deduction under another reference exists
RefundNeedsDeductionWitness ==
    /\ last.kind = "Refund" /\ last.result = "ReferencedOperationNotFound"
    /\ \E o \in ops : o.type = OperationTypeDeduction /\ o.ref # last.ref

\* C11: in every reachable state every grant, failed grants credited by a
\* debt settlement and later by a Refund included, has
\* remaining_amount <= initial_amount
RemainingWithinInitial ==
    \A g \in DOMAIN grants : grants[g].remaining <= grants[g].initial

\* what the deduction and refund rows of grant g say it holds
LedgerOf(g) ==
    grants[g].initial
       + SumRows(opGrants, {r \in DOMAIN opGrants :
                               /\ r.grant = g
                               /\ r.type \in {OperationTypeDeduction, OperationTypeRefund}})

\* C12: concurrent Refund and Deduct calls on the same grants leave every
\* grant with the remaining_amount of some serial execution, no update is
\* lost: while no grant has failed (so that nothing was settled), every
\* grant holds its initial_amount plus the deduction and refund rows
\* recorded for it, as it does after every serial execution
NoLostUpdate ==
    (\A g \in DOMAIN grants : grants[g].status # GrantStatusFailed) =>
        \A g \in DOMAIN grants : grants[g].remaining = LedgerOf(g)

\* caller q is inside a Deduct that has passed its debt check
InFlightDeduct(q) ==
    tx[q].kind = "Deduct" /\ tx[q].pc \in {"deductLock", "deductWrite"}

\* C13: a Deduct that runs beside another Deduct succeeds exactly when the
\* committed balance covers its amount: it then lowers the sum of
\* remaining_amount by its amount, and when the balance covered both amounts
\* it leaves enough for the other call, which succeeds by the same rule; a
\* Deduct never succeeds for more than the balance that is left
ConcurrentDeducts ==
    [][\A p \in Procs :
          (Returns(p, "Deduct") /\ InFlightDeduct(p)) =>
             LET part == tx[p].part
                 avail == SpecBalance(grants, part, now)
                 sum(G) == SumOver({g \in DOMAIN G : G[g].part = part},
                                   [g \in DOMAIN G |-> G[g].remaining])
                 others == {q \in Procs \ {p} :
                               /\ InFlightDeduct(q)
                               /\ tx[q].part = part
                               /\ tx[q].ref # tx[p].ref}
             IN /\ last'.result = "ok" => tx[p].amount <= avail
                /\ (/\ avail >= tx[p].amount
                    /\ <<tx[p].app, tx[p].ref, OperationTypeDeduction>> \notin Keys(ops))
                   => /\ last'.result = "ok"
                      /\ sum(grants') = sum(grants) - tx[p].amount
                      /\ \A q \in others :
                            avail >= tx[p].amount + tx[q].amount
                               => SpecBalance(grants', part, now) >= tx[q].amount]_vars

\* the first of two overlapping deductions under different references has
\* succeeded and the second, still waiting for the grant rows, is covered
ConcurrentDeductsWitness ==
    /\ last.kind = "Deduct" /\ last.result = "ok"
    /\ \E q \in Procs \ {last.proc} :
          /\ tx[q].kind = "Deduct" /\ tx[q].pc = "deductLock"
          /\ tx[q].ref # last.ref
          /\ SpecBalance(grants, tx[q].part, now) >= tx[q].amount
          /\ \E o \in ops : o.type = OperationTypeDeduction /\ o.ref = last.ref

\* the rows a step adds to the operation-grant table
NewRows == {r \in DOMAIN opGrants' :
               r \notin DOMAIN opGrants \/ opGrants'[r] # opGrants[r]}

\* the step adds exactly the one row r and leaves every other row alone
AddsOneRow(r) ==
    /\ NewRows = {r}
    /\ r \notin DOMAIN opGrants
    /\ opGrants'[r] = 1
    /\ DOMAIN opGrants \subseteq DOMAIN opGrants'

\* C14: a successful CreateGrant(license, asset, amount, tx_hash, mint_time)
\* on a partition without debt inserts exactly one grant, pending, with
\* initial_amount = remaining_amount = amount and the given tx_hash, one
\* grant_purchase operation (credit_tracker, new grant id, amount) and one
\* operation-grant row of +amount for that grant, and changes nothing else
CreateGrantInserts ==
    [][\A p \in Procs, part \in GrantDom.parts, amount \in GrantDom.amounts,
          txHash \in GrantDom.hashes, mint \in GrantDom.mints :
          (/\ Succeeds(p, "CreateGrant")
           /\ CreateGrant(p, part, amount, txHash, mint, GrantDom.maxId)
           /\ SpecDebt(grants, part) = 0)
          => /\ Cardinality(DOMAIN grants' \ DOMAIN grants) = 1
             /\ \A g \in DOMAIN grants : grants'[g] = grants[g]
             /\ \A g \in DOMAIN grants' \ DOMAIN grants :
                   /\ grants'[g].part = part
                   /\ grants'[g].status = "pending"
                   /\ grants'[g].initial = amount
                   /\ grants'[g].remaining = amount
                   /\ grants'[g].txHash = txHash
                   /\ grants'[g].logIndex = NoLog
                   /\ ops' \ ops = {[app |-> "credit_tracker", ref |-> g,
                                     type |-> "grant_purchase", part |-> part,
                                     total |-> amount]}
                   /\ ops \subseteq ops'
                   /\ AddsOneRow([app |-> "credit_tracker", ref |-> g,
                                  type |-> "grant_purchase", grant |-> g,
                                  amount |-> amount])]_vars

\* a second grant was bought, under another hash and in another partition
\* than the first
CreateGrantInsertsWitness ==
    /\ last.kind = "CreateGrant" /\ last.result = "ok"
    /\ last.ref = 2 /\ DOMAIN grants = {1, 2}
    /\ grants[2].status = "pending" /\ grants[2].remaining = 2
    /\ grants[2].txHash # grants[1].txHash
    /\ grants[2].part # grants[1].part
    /\ OpTypes = {OperationTypeGrantPurchase}

\* C15: CreateGrant and ConfirmGrant called with amount 0, or with an amount
\* above the largest int64, fail in their first step and leave grants,
\* operations and operation-grant rows as they were
BadAmountRejected ==
    [][\A p \in Procs, part \in GrantDom.parts, txHash \in GrantDom.hashes,
          mint \in GrantDom.mints, amount \in GrantDom.amounts :
          (amount = 0 \/ amount > MaxInt64) =>
             /\ (/\ StartsCall(p, "CreateGrant")
                 /\ CreateGrant(p, part, amount, txHash, mint, GrantDom.maxId))
                => /\ last'.proc = p /\ last'.kind = "CreateGrant"
                   /\ last'.result \in {"InvalidAmount", "AmountTooLarge"}
                   /\ LedgerUnchanged
             /\ \A logIndex \in GrantDom.logs :
                   (/\ StartsCall(p, "ConfirmGrant")
                    /\ ConfirmGrant(p, part, txHash, logIndex, amount, mint,
                                    GrantDom.maxId))
                   => /\ last'.proc = p /\ last'.kind = "ConfirmGrant"
                      /\ last'.result \in {"InvalidAmount", "AmountTooLarge"}
                      /\ LedgerUnchanged]_vars

\* a ConfirmGrant for more than the largest int64 was refused while a
\* pending grant with a free grant slot beside it was waiting
BadAmountRejectedWitness ==
    /\ last.kind = "ConfirmGrant" /\ last.result = "AmountTooLarge"
    /\ DOMAIN grants = {1}
    /\ grants[1].status = "pending"
    /\ nextId = 2

\* the arguments of the ConfirmGrant call of caller p that returns in this
\* step: a call that settles debt returns from SettleDebt and carries its
\* arguments in its transaction, any other call returns in its first step
ConfirmArgs(p) ==
    IF tx[p].pc = "settle"
    THEN {[part |-> tx[p].part, txHash |-> tx[p].txHash,
           logIndex |-> tx[p].logIndex, amount |-> tx[p].amount]}
    ELSE {c \in [part : GrantDom.parts, txHash : GrantDom.hashes,
                  logIndex : GrantDom.logs, amount : GrantDom.amounts] :
             \E mint \in GrantDom.mints :
                ConfirmGrant(p, c.part, c.txHash, c.logIndex, c.amount, mint,
                             GrantDom.maxId)}

\* the pending grants of (license, asset, tx_hash), and the oldest of a set
SpecPending(part, txHash) ==
    {g \in DOMAIN grants : /\ grants[g].part = part
                           /\ grants[g].txHash = txHash
                           /\ grants[g].status = "pending"}

Oldest(S) == CHOOSE g \in S : \A h \in S : g <= h

\* what the debt settlement recorded under (credit_tracker, id) in this step
\* moved out of, or into, grant g
SettledOn(id, g) ==
    SumRows(opGrants', {r \in RowsOf(opGrants', "credit_tracker", id, "debt_settlement") :
                           r.grant = g /\ r \in NewRows})

\* the step records exactly one grant_confirm operation, for grant id, with
\* exactly one operation-grant row, which references grant id
RecordsConfirm(id) ==
    /\ \E o \in ops' \ ops :
          /\ OpKey(o) = <<"credit_tracker", id, "grant_confirm">>
          /\ \A o2 \in ops' \ ops : o2.type = "grant_confirm" => o2 = o
    /\ \E r \in NewRows :
          /\ r.type = "grant_confirm" /\ r.grant = id /\ opGrants'[r] = 1
          /\ <<r.app, r.ref>> = <<"credit_tracker", id>>
          /\ \A r2 \in NewRows : r2.type = "grant_confirm" => r2 = r

\* C16, as stated: a successful ConfirmGrant that finds pending grants of its
\* (license, asset, tx_hash) confirms the oldest with the given log_index,
\* keeps its initial_amount and remaining_amount, inserts no grant and
\* records one grant_confirm operation for it
ConfirmKeepsPending ==
    [][\A p \in Procs :
          Succeeds(p, "ConfirmGrant") =>
             \A c \in ConfirmArgs(p) :
                SpecPending(c.part, c.txHash) # {} =>
                   LET id == Oldest(SpecPending(c.part, c.txHash))
                   IN /\ grants'[id] = [grants[id] EXCEPT !.status = "confirmed",
                                                           !.logIndex = c.logIndex]
                      /\ DOMAIN grants' = DOMAIN grants
                      /\ RecordsConfirm(id)]_vars

\* C16, amended: as above, but the grant keeps its remaining_amount only up
\* to what the SettleDebt of the same call takes from it, and nothing is
\* taken when the partition has no debt
ConfirmKeepsPendingUnsettled ==
    [][\A p \in Procs :
          Succeeds(p, "ConfirmGrant") =>
             \A c \in ConfirmArgs(p) :
                SpecPending(c.part, c.txHash) # {} =>
                   LET id == Oldest(SpecPending(c.part, c.txHash))
                   IN /\ grants'[id] = [grants[id] EXCEPT !.status = "confirmed",
                                                           !.logIndex = c.logIndex,
                                                           !.remaining = @ - SettledOn(id, id)]
                      /\ SpecDebt(grants, c.part) = 0 => SettledOn(id, id) = 0
                      /\ DOMAIN grants' = DOMAIN grants
                      /\ RecordsConfirm(id)]_vars

\* of two pending grants under one hash the older, partly consumed one was
\* confirmed and kept what it had left
ConfirmKeepsPendingUnsettledWitness ==
    /\ last.kind = "ConfirmGrant" /\ last.result = "ok" /\ last.ref = 1
    /\ DOMAIN grants = {1, 2}
    /\ grants[1].txHash = grants[2].txHash /\ grants[1].part = grants[2].part
    /\ grants[1].status = "confirmed" /\ grants[2].status = "pending"
    /\ grants[1].initial = 2 /\ grants[1].remaining = 1

\* the step records one grant_confirm operation of the given total for grant
\* id, with one operation-grant row of +amount
RecordsConfirmOf(id, part, amount) ==
    /\ RecordsConfirm(id)
    /\ [app |-> "credit_tracker", ref |-> id, type |-> "grant_confirm",
        part |-> part, total |-> amount] \in ops' \ ops
    /\ [app |-> "credit_tracker", ref |-> id, type |-> "grant_confirm",
        grant |-> id, amount |-> amount] \in NewRows

\* the one grant a step inserts is confirmed and carries the call's arguments
InsertsConfirmed(c, g) ==
    /\ DOMAIN grants' \ DOMAIN grants = {g}
    /\ grants'[g].part = c.part
    /\ grants'[g].status = "confirmed"
    /\ grants'[g].txHash = c.txHash
    /\ grants'[g].logIndex = c.logIndex
    /\ grants'[g].initial = c.amount

\* C17, as stated: a successful ConfirmGrant that finds no pending grant of
\* its (license, asset, tx_hash) inserts exactly one grant, confirmed, with
\* initial_amount = remaining_amount = amount, the given tx_hash and
\* log_index, and records one grant_confirm operation with one row of +amount
ConfirmInsertsGrant ==
    [][\A p \in Procs :
          Succeeds(p, "ConfirmGrant") =>
             \A c \in ConfirmArgs(p) :
                SpecPending(c.part, c.txHash) = {} =>
                   \E g \in DOMAIN grants' :
                      /\ InsertsConfirmed(c, g)
                      /\ grants'[g].remaining = c.amount
                      /\ RecordsConfirmOf(g, c.part, c.amount)]_vars

\* C17, amended: as above, but the new grant holds amount less what the
\* SettleDebt of the same call takes from it, and nothing is taken when the
\* partition has no debt
ConfirmInsertsGrantUnsettled ==
    [][\A p \in Procs :
          Succeeds(p, "ConfirmGrant") =>
             \A c \in ConfirmArgs(p) :
                SpecPending(c.part, c.txHash) = {} =>
                   \E g \in DOMAIN grants' :
                      /\ InsertsConfirmed(c, g)
                      /\ grants'[g].remaining = c.amount - SettledOn(g, g)
                      /\ SpecDebt(grants, c.part) = 0 => SettledOn(g, g) = 0
                      /\ RecordsConfirmOf(g, c.part, c.amount)]_vars

\* a confirmation under a hash without pending grant inserted a confirmed
\* grant beside the pending grant of another hash in the same partition
ConfirmInsertsGrantUnsettledWitness ==
    /\ last.kind = "ConfirmGrant" /\ last.result = "ok" /\ last.ref = 2
    /\ DOMAIN grants = {1, 2}
    /\ grants[1].status = "pending" /\ grants[1].part = grants[2].part
    /\ grants[1].txHash # grants[2].txHash
    /\ grants[2].status = "confirmed" /\ grants[2].logIndex = 2
    /\ grants[2].initial = 2 /\ grants[2].remaining = 2

\* C18: at most one grant exists for a non-null (tx_hash, log_index), and a
\* ConfirmGrant with a valid amount for a (tx_hash, log_index) that is
\* already confirmed returns AlreadyPerformed and leaves grants, operations
\* and operation-grant rows as they were
ConfirmReplay ==
    [][/\ \A g, h \in DOMAIN grants' :
             (/\ grants'[g].logIndex # NoLog
              /\ grants'[g].txHash = grants'[h].txHash
              /\ grants'[g].logIndex = grants'[h].logIndex) => g = h
       /\ \A p \in Procs :
             Returns(p, "ConfirmGrant") =>
                \A c \in ConfirmArgs(p) :
                   (/\ c.amount \in 1..MaxInt64
                    /\ \E g \in DOMAIN grants : /\ grants[g].txHash = c.txHash
                                                /\ grants[g].logIndex = c.logIndex)
                   => /\ last'.result = "AlreadyPerformed"
                      /\ LedgerUnchanged]_vars

\* the failed grants of a partition that carry debt
SpecIndebted(part) ==
    {g \in DOMAIN grants : /\ grants[g].part = part
                           /\ grants[g].status = "failed"
                           /\ grants[g].remaining < grants[g].initial}

\* the case of C19 for a CreateGrant of amount a on partition part: one
\* failed grant carries the debt, a covers it, nothing else is active
SettlesInFull(part, a) ==
    /\ Cardinality(SpecIndebted(part)) = 1
    /\ SpecDebt(grants, part) <= a
    /\ a <= MaxInt64
    /\ SpecBalance(grants, part, now) = 0

\* C19: when one failed grant carries debt d and CreateGrant adds a grant of
\* amount a >= d to a partition without other active balance, the call goes
\* on to settle and succeeds; afterwards the failed grant is back at its
\* initial_amount, the new grant holds a - d of initial_amount a, and the
\* call has recorded exactly one debt_settlement operation, of total d
CreateGrantSettles ==
    [][\A p \in Procs :
          /\ \A part \in GrantDom.parts, amount \in GrantDom.amounts,
                txHash \in GrantDom.hashes, mint \in GrantDom.mints :
                (/\ StartsCall(p, "CreateGrant")
                 /\ CreateGrant(p, part, amount, txHash, mint, GrantDom.maxId)
                 /\ SettlesInFull(part, amount))
                => tx'[p].pc = "settle" /\ tx'[p].ref \notin DOMAIN grants
          /\ (/\ Returns(p, "CreateGrant")
              /\ tx[p].pc = "settle"
              /\ SettlesInFull(tx[p].part, tx[p].amount))
             => LET part == tx[p].part
                    a == tx[p].amount
                    d == SpecDebt(grants, part)
                    new == tx[p].ref
                IN /\ last'.result = "ok"
                   /\ DOMAIN grants' = DOMAIN grants \cup {new}
                   /\ \A f \in SpecIndebted(part) :
                         grants'[f] = [grants[f] EXCEPT !.remaining = grants[f].initial]
                   /\ grants'[new].initial = a
                   /\ grants'[new].remaining = a - d
                   /\ {o \in ops' \ ops : o.type = "debt_settlement"}
                         = {[app |-> "credit_tracker", ref |-> new,
                             type |-> "debt_settlement", part |-> part,
                             total |-> d]}]_vars

\* a grant of 2 was bought against a debt of 1: the failed grant is whole
\* again and the new grant holds 1
CreateGrantSettlesWitness ==
    /\ last.kind = "CreateGrant" /\ last.result = "ok" /\ last.ref = 2
    /\ DOMAIN grants = {1, 2}
    /\ grants[1].status = "failed" /\ grants[1].remaining = grants[1].initial
    /\ grants[2].initial = 2 /\ grants[2].remaining = 1
    /\ \E o \in ops : o.type = OperationTypeDebtSettlement /\ o.total = 1 /\ o.ref = 2

\* the sign the specification prescribes for a row of the given type
SignOK(r) ==
    IF r.type = "deduction" THEN r.amount < 0
    ELSE /\ r.type \in {"refund", "grant_purchase", "grant_confirm", "debt_settlement"}
         /\ r.amount > 0

\* C20: every operation-grant row, committed or written by a transaction
\* still in flight, has amount_used < 0 if it is a deduction row and
\* amount_used > 0 if it is a refund, grant_purchase, grant_confirm or
\* debt_settlement row
RowSigns ==
    /\ \A r \in DOMAIN opGrants : SignOK(r)
    /\ \A p \in Procs : \A i \in DOMAIN tx[p].newRows : SignOK(tx[p].newRows[i])

\* rows of all five operation types are recorded, the settlement with a row
\* for the debited and a row for the credited grant
RowSignsWitness ==
    /\ {r.type : r \in DOMAIN opGrants} =
          {OperationTypeDeduction, OperationTypeRefund, OperationTypeGrantPurchase,
           OperationTypeGrantConfirm, OperationTypeDebtSettlement}
    /\ \E r1, r2 \in DOMAIN opGrants :
          /\ r1.type = OperationTypeDebtSettlement
          /\ r2.type = OperationTypeDebtSettlement
          /\ r1.grant # r2.grant
          /\ grants[r1.grant].status = GrantStatusFailed
          /\ grants[r2.grant].status # GrantStatusFailed

\* the step in which the handler of caller p returns to its client
RpcReturns(p) == rpc[p].pc # "idle" /\ rpc'[p].pc = "idle"

\* C21: one DeductCredits request initiates at most one burn and calls the
\* ledger's Deduct at most twice; when the Deduct retried after the burn
\* returns InsufficientCredits again, the request ends with an error and no
\* further burn
BurnAtMostOnce ==
    [][\A p \in Procs :
          /\ rpc'[p].burns <= 1
          /\ rpc'[p].deducts <= 2
          /\ (/\ RpcGot(p, "deductAgain", "Deduct")
              /\ last.result = "InsufficientCredits"
              /\ last' # last)
             => /\ RpcReturns(p)
                /\ rpc'[p].result = "DeductAfterBurnFailed"
                /\ rpc'[p].err = "InsufficientCredits"
                /\ rpc'[p].burns = 1
                /\ rpc'[p].deducts = 2
                /\ LedgerUnchanged]_vars

\* a request that burned once, deducted twice and failed on InsufficientCredits
BurnAtMostOnceWitness ==
    /\ rpc[1].pc = "idle"
    /\ rpc[1].result = "DeductAfterBurnFailed"
    /\ rpc[1].err = "InsufficientCredits"
    /\ rpc[1].burns = 1
    /\ rpc[1].deducts = 2

\* C22: a burn is initiated only after the ledger's Deduct failed with
\* InsufficientCredits; when the first Deduct fails with any other error the
\* request returns that error, no burn is initiated and no grant is created
BurnOnlyOnInsufficient ==
    [][\A p \in Procs :
          /\ (rpc'[p].burns > rpc[p].burns \/ (rpc[p].pc # "burn" /\ rpc'[p].pc = "burn"))
             => rpc[p].pc = "burn" \/ (last.kind = "Deduct" /\ last.proc = p
                                       /\ last.result = "InsufficientCredits")
          /\ (~RpcIdle(p) /\ DOMAIN grants' # DOMAIN grants) => rpc'[p].burns > 0
          /\ (/\ RpcGot(p, "deduct", "Deduct")
              /\ last.result \notin {"ok", "InsufficientCredits"}
              /\ last' # last)
             => /\ RpcReturns(p)
                /\ rpc'[p].result = "DeductFailed"
                /\ rpc'[p].err = last.result
                /\ rpc'[p].burns = 0
                /\ DOMAIN grants' = rpc[p].pre.ids
                /\ LedgerUnchanged]_vars

\* a request refused as already performed: no burn, no new grant
BurnOnlyOnInsufficientWitness ==
    /\ rpc[1].pc = "idle"
    /\ rpc[1].result = "DeductFailed"
    /\ rpc[1].err = "AlreadyPerformed"
    /\ rpc[1].burns = 0
    /\ DOMAIN grants = rpc[1].pre.ids

\* the request of caller p finds no debt and a balance that one burn lifts
\* to the requested amount
BurnSuffices(p) ==
    /\ rpc[p].pre.debt = 0
    /\ rpc[p].pre.balance < rpc[p].amount
    /\ rpc[p].amount <= rpc[p].pre.balance + creditsFromBurn

\* no grant was marked failed since the request of caller p arrived
NoneFailedSince(p) ==
    {g \in DOMAIN grants' : grants'[g].status = GrantStatusFailed} = rpc[p].pre.failed

\* the request of caller p has bought one grant and is deducted once
BurnedAndDeducted(p) ==
    /\ rpc'[p].result = "ok"
    /\ rpc'[p].burns = 1
    /\ \E g \in DOMAIN grants' :
          /\ DOMAIN grants' \ rpc[p].pre.ids = {g}
          /\ grants'[g].part = rpc[p].part
          /\ grants'[g].initial = creditsFromBurn
          /\ grants'[g].status = GrantStatusConfirmed
    /\ \E o \in ops' :
          /\ OpKey(o) = <<rpc[p].app, rpc[p].ref, OperationTypeDeduction>>
          /\ o.total = rpc[p].amount
          /\ o.part = rpc[p].part
          /\ \A o2 \in ops' : OpKey(o2) = OpKey(o) => o2 = o

\* the new grant is in the ledger when the second attempt starts
GrantBeforeRetry(p) ==
    (rpc[p].pc = "again" /\ rpc'[p].pc = "deductAgain")
    => \E g \in DOMAIN grants \ rpc[p].pre.ids :
          grants[g].initial = creditsFromBurn /\ grants[g].part = rpc[p].part

StreamPosition ==
    IF stream.marked = {} THEN 1
    ELSE 1 + CHOOSE i \in stream.marked : \A j \in stream.marked : j <= i

\* C24: a burn event is marked only after ConfirmGrant returned success for
\* it, and the committed stream position never moves past a burn event whose
\* ConfirmGrant call failed
CommitAfterConfirm ==
    /\ \A i \in stream.marked : stream.msgs[i].kind = "burn" => i \notin stream.failed
    /\ \A i \in stream.failed : StreamPosition <= i

\* the driver has counted every invocation so far
Counted == drv.calls <= MaxAttempts

\* C25: the driver invokes the operation again after every deadlock error
\* and returns the first other outcome: when it returns without error after
\* k deadlocks the operation was invoked exactly k + 1 times and the result
\* is the operation's; a deadlock error is never returned
RetriesDeadlocks ==
    /\ drv.err # "Deadlock"
    /\ (drv.pc = "wait" /\ Counted) => drv.calls = drv.deadlocks /\ drv.out = "Deadlock"
    /\ (drv.pc = "done" /\ drv.err = "-" /\ Counted)
       => /\ drv.result = "value"
          /\ drv.out = "ok"
          /\ drv.calls = drv.deadlocks + 1

\* two deadlocks, then success at the third invocation
RetriesDeadlocksWitness ==
    /\ drv.pc = "done"
    /\ drv.err = "-"
    /\ drv.result = "value"
    /\ drv.deadlocks = 2
    /\ drv.calls = 3

CancelStopsAtOnce ==
    /\ drv.late = 0
    /\ (drv.pc = "done" /\ drv.ctx \in CtxDone) => drv.err = drv.ctx /\ drv.result = "zero"

\* C27: a context that is done on entry means no invocation at all; a
\* context that becomes done lets at most the invocation through whose
\* check had passed, and the driver then returns the context's error with a
\* zero result unless that invocation returned success or another error than
\* a deadlock; the loop ends even if every invocation deadlocks
CancelEndsLoop ==
    /\ [](drv.entry \in CtxDone => drv.calls = 0)
    /\ [](drv.late <= 1)
    /\ []((drv.pc = "done" /\ drv.ctx \in CtxDone)
          => \/ drv.err = drv.ctx /\ drv.result = "zero"
             \/ drv.late = 1 /\ drv.out # "Deadlock" /\ drv.entry = "live")
    /\ []((drv.pc = "done" /\ drv.err \in CtxDone) => drv.result = "zero" /\ drv.err = drv.ctx)
    /\ (drv.ctx \in CtxDone ~> drv.pc = "done")

\* cancelled while every invocation deadlocked: the context's error, zero result
CancelEndsLoopWitness ==
    /\ drv.pc = "done"
    /\ drv.entry = "live"
    /\ drv.err = "Canceled"
    /\ drv.result = "zero"
    /\ drv.deadlocks = 2
    /\ drv.calls = 2

\* the operations of the given type that a usage report for the license and
\* the window [from, to] counts; a zero to leaves the window open
Counted28(type, license, from, to) ==
    {o \in ops : /\ o.type = type
                 /\ LicenseOf(o.part) = license
                 /\ created[OpKey(o)] >= from
                 /\ (to = ZeroTime \/ created[OpKey(o)] <= to)}

TotalOf(S) == SumOver(S, [o \in S |-> o.total])

\* the refund of a deduction, and the deduction of a refund
Partner(o, type) == {q \in ops : q.app = o.app /\ q.ref = o.ref /\ q.type = type}

\* C28: a usage report for (license, from, to) has NumOfCreditsUsed = the
\* sum of total_amount of the license's deductions created in [from, to]
\* minus that of its refunds created in [from, to], with no upper bound
\* when to is zero; a deduction refunded inside the window adds 0 and
\* operations outside the window add nothing
UsageReportNet ==
    [][\A license \in {"L1", "L2"}, from \in Dates, to \in Dates :
          (/\ Succeeds(1, "GetLicenseUsageReport")
           /\ GetLicenseUsageReport(1, license, from, to))
          => LET D == Counted28(OperationTypeDeduction, license, from, to)
                 R == Counted28(OperationTypeRefund, license, from, to)
             IN /\ last'.value = TotalOf(D) - TotalOf(R)
                /\ last'.value =
                      TotalOf({d \in D : Partner(d, OperationTypeRefund) \cap R = {}})
                      - TotalOf({r \in R : Partner(r, OperationTypeDeduction) \cap D = {}})]_vars

\* at time 1 a report says 0 for a license with an earlier deduction of 1
\* and a later deduction that was refunded: the window starts at 1
UsageReportNetWitness ==
    /\ last.kind = "GetLicenseUsageReport"
    /\ last.result = "ok"
    /\ last.value = 0
    /\ now = 1
    /\ \E d0, d1, r1 \in ops :
          /\ d0.type = OperationTypeDeduction /\ d1.type = OperationTypeDeduction
          /\ r1.type = OperationTypeRefund
          /\ created[OpKey(d0)] = 0 /\ created[OpKey(d1)] = 1 /\ created[OpKey(r1)] = 1
          /\ r1 \in Partner(d1, OperationTypeRefund)
          /\ Partner(d0, OperationTypeRefund) = {}
          /\ {LicenseOf(d0.part), LicenseOf(d1.part)} = {"L1"}
          /\ d0.part # d1.part
    /\ \A o \in ops : LicenseOf(o.part) = "L1"

\* the calls that end with a run of SettleDebt
SettlingCalls == {"CreateGrant", "ConfirmGrant", "Refund"}

\* C29: after any successful CreateGrant, ConfirmGrant or Refund the
\* partition's outstanding debt is 0 or its active balance is 0
SettledAfterwards ==
    [][\A p \in Procs :
          (Returns(p, last'.kind) /\ last'.kind \in SettlingCalls /\ last'.result = "ok")
          => \/ SpecDebt(grants', last'.part) = 0
             \/ SpecBalance(grants', last'.part, now) = 0]_vars

\* the rows of one debt_settlement operation on the grants that are failed,
\* or are not, once the settlement is committed
SettlementRows(G, B, o, failed) ==
    {r \in RowsOf(B, o.app, o.ref, "debt_settlement") :
        (G[r.grant].status = "failed") = failed}

\* C30: every debt_settlement operation's total_amount equals what the
\* settlement moved: the sum taken from the active grants = the sum added
\* to the failed grants = total_amount, also when two calls on the same
\* partition run their settlement concurrently
SettlementTotalIsMoved ==
    [][\A o \in ops' \ ops :
          o.type = "debt_settlement"
          => /\ SumRows(opGrants', SettlementRows(grants', opGrants', o, FALSE)) = o.total
             /\ SumRows(opGrants', SettlementRows(grants', opGrants', o, TRUE)) = o.total]_vars

\* the committed rows with negative amount_used under the key of operation o
DebitRows(o) == {r \in RowsOf(opGrants, o.app, o.ref, o.type) : r.amount < 0}

\* C31 as stated: a deduction operation exists if and only if at least one
\* operation-grant row with negative amount_used references it
DeductionIffDebitRow ==
    /\ \A o \in ops : o.type = "deduction" => DebitRows(o) # {}
    /\ \A r \in DOMAIN opGrants :
          r.amount < 0 => \E o \in ops : o.type = "deduction" /\ OpKey(o) = <<r.app, r.ref, r.type>>

\* C31: every committed deduction operation with total_amount > 0 has at
\* least one operation-grant row with negative amount_used, a deduction of
\* amount 0 has no row at all, and every row with negative amount_used
\* belongs to a committed deduction operation
PositiveDeductionIffDebitRow ==
    /\ \A o \in ops :
          o.type = "deduction"
          => IF o.total > 0 THEN DebitRows(o) # {}
             ELSE RowsOf(opGrants, o.app, o.ref, o.type) = {}
    /\ \A r \in DOMAIN opGrants :
          r.amount < 0 => \E o \in ops : o.type = "deduction" /\ OpKey(o) = <<r.app, r.ref, r.type>>

\* a deduction of 0 and a deduction of 2 spread over two grants are recorded
PositiveDeductionIffDebitRowWitness ==
    /\ \E o \in ops : o.type = "deduction" /\ o.total = 0
    /\ \E o \in ops : o.type = "deduction" /\ Cardinality(DebitRows(o)) = 2

\* the key (app_name, reference_id, type) of the call that p is running
CallKey(p, type) == <<tx[p].app, tx[p].ref, type>>

\* C32: Deduct with amount 0 on a partition without debt succeeds, records
\* a deduction operation with total_amount 0 and leaves every grant
\* unchanged; the Refund of that deduction also succeeds, records a refund
\* operation with total_amount 0 and changes no grant
ZeroDeductAndRefund ==
    [][\A p \in Procs :
          /\ \A part \in AppsDom.parts, app \in AppsDom.apps, ref \in AppsDom.refs :
                (/\ StartsCall(p, "Deduct")
                 /\ SpecDebt(grants, part) = 0
                 /\ DeductCredits(p, part, 0, app, ref))
                => tx'[p].pc = "deductLock"
          /\ (At(p, "deductLock") /\ tx[p].amount = 0 /\ DeductLock(p))
             => tx'[p].pc = "deductWrite"
          /\ (/\ Returns(p, "Deduct")
              /\ tx[p].pc = "deductWrite"
              /\ tx[p].amount = 0
              /\ CallKey(p, "deduction") \notin Keys(ops))
             => /\ last'.result = "ok"
                /\ grants' = grants
                /\ opGrants' = opGrants
                /\ ops' = ops \cup {[app |-> tx[p].app, ref |-> tx[p].ref,
                                     type |-> "deduction", part |-> tx[p].part,
                                     total |-> 0]}
          /\ (/\ Returns(p, "Refund")
              /\ tx[p].kind = "Refund"
              /\ tx[p].amount = 0
              /\ CallKey(p, "refund") \notin Keys(ops))
             => /\ last'.result = "ok"
                /\ grants' = grants
                /\ [app |-> tx[p].app, ref |-> tx[p].ref, type |-> "refund",
                    part |-> tx[p].part, total |-> 0] \in ops']_vars

\* the grants whose remaining_amount the step lowers below what G shows
Debited(G) == {g \in DOMAIN G : grants'[g].remaining < G[g].remaining}

\* C33: Deduct locks exactly the grants that are active at the moment of
\* its read (pending or confirmed, remaining_amount > 0, not expired) and
\* debits only locked grants, pending and confirmed alike in FIFO order;
\* SettleDebt debits only grants that are active when it reads them; a
\* failed or expired grant is never debited
DebitsOnlyActive ==
    [][\A p \in Procs :
          /\ (At(p, "deductLock") /\ tx'[p].pc = "deductWrite")
             => tx'[p].locks = SpecActive(grants, tx[p].part, now)
          /\ (At(p, "deductWrite") /\ tx'[p].pc = "deductWrite")
             => tx'[p].locks = tx[p].locks
          /\ (Returns(p, "Deduct") /\ tx[p].pc = "deductWrite")
             => /\ \A g \in Debited(grants) :
                      /\ g \in tx[p].locks
                      /\ grants[g].status \in {"pending", "confirmed"}
                      /\ grants[g].remaining > 0
                /\ \A a, b \in tx[p].locks :
                      (SpecBefore(grants, a, b) /\ b \in Debited(grants))
                      => grants'[a].remaining = 0
          /\ (Returns(p, last'.kind) /\ tx[p].pc = "settle")
             => Debited(View(p)) \subseteq SpecActive(View(p), tx[p].part, now)]_vars

\* one deduction has emptied a pending grant and gone on to debit the
\* confirmed grant behind it
DebitsOnlyActiveWitness ==
    /\ \E a, b \in DOMAIN grants :
          /\ grants[a].status = "pending" /\ grants[a].remaining = 0
          /\ grants[b].status = "confirmed" /\ grants[b].remaining < grants[b].initial
          /\ \E r1, r2 \in DOMAIN opGrants :
                /\ r1.type = "deduction" /\ r2.type = "deduction"
                /\ r1.ref = r2.ref /\ r1.grant = a /\ r2.grant = b

\* the columns of a grant that no update may touch
Fixed(row) == <<row.part, row.initial, row.txHash, row.expiresAt>>

\* C34: a grant's initial_amount (as its partition, tx_hash and expires_at)
\* never changes after the grant is inserted, neither in the committed row
\* nor in a row a running transaction has written: Deduct, Refund,
\* ConfirmGrant and SettleDebt modify only remaining_amount, status and
\* log_index
InitialImmutable ==
    [][/\ \A g \in DOMAIN grants :
             g \in DOMAIN grants' /\ Fixed(grants'[g]) = Fixed(grants[g])
       /\ \A p \in Procs : \A g \in DOMAIN tx'[p].w \cap DOMAIN grants :
             Fixed(tx'[p].w[g]) = Fixed(grants[g])]_vars

\* a grant of initial_amount 2 was debited by a settlement and confirmed
\* by an event that carried amount 1: it is still a grant of 2
InitialImmutableWitness ==
    \E g \in DOMAIN grants :
       /\ grants[g].status = "confirmed"
       /\ grants[g].initial = 2 /\ grants[g].remaining < 2
       /\ \E o \in ops : /\ OpKey(o) = <<"credit_tracker", g, "grant_confirm">>
                         /\ o.total = 1
       /\ \E r \in DOMAIN opGrants : r.type = "debt_settlement" /\ r.grant = g

\* the arguments with which caller p can start or restart a ConfirmGrant
ResettleArgs(p) ==
    {c \in [part : ResettleDom.parts, txHash : ResettleDom.hashes,
            logIndex : ResettleDom.logs, amount : ResettleDom.amounts,
            mint : ResettleDom.mints] :
        ConfirmGrant(p, c.part, c.txHash, c.logIndex, c.amount, c.mint, ResettleDom.maxId)}

\* the case of C38: a pending grant matches, the amount is valid and no
\* grant carries (tx_hash, log_index) yet
Confirmable(c) ==
    /\ SpecPending(c.part, c.txHash) # {}
    /\ c.amount \in 1..MaxInt64
    /\ \A g \in DOMAIN grants :
          ~(grants[g].txHash = c.txHash /\ grants[g].logIndex = c.logIndex)

\* C38 as stated: ConfirmGrant for a tx_hash that matches a pending grant,
\* with a valid amount and a log_index not used before, succeeds in every
\* reachable state and the grant becomes confirmed
ConfirmAlwaysSucceeds ==
    [][\A p \in Procs :
          /\ StartsCall(p, "ConfirmGrant")
             => \A c \in ResettleArgs(p) :
                   Confirmable(c) => \/ tx'[p].pc = "settle"
                                     \/ last'.result = "ok"
          /\ Returns(p, "ConfirmGrant")
             => (last'.result = "ok" => grants'[last'.ref].status = "confirmed")]_vars

\* the settlement that ConfirmGrant would record for grant id exists already
\* and the partition has both outstanding debt and active balance
SettlementTaken(part, id) ==
    /\ <<"credit_tracker", id, "debt_settlement">> \in Keys(ops)
    /\ SpecDebt(grants, part) > 0
    /\ SpecBalance(grants, part, now) > 0

\* C38: a ConfirmGrant that does not overlap another call, for a tx_hash
\* that matches a pending grant, with a valid amount and a log_index not
\* used before, succeeds and confirms the oldest matching grant, except
\* when a debt_settlement is already recorded under (credit_tracker, grant
\* id) and the partition has positive debt and positive active balance:
\* then it fails with the duplicate-key error of the settlement and
\* changes nothing, and the grant stays pending
ConfirmSucceedsUnlessResettling ==
    [][/\ StartsCall(1, "ConfirmGrant")
          => \A c \in ResettleArgs(1) :
                Confirmable(c)
                => LET id == Oldest(SpecPending(c.part, c.txHash))
                   IN IF SettlementTaken(c.part, id)
                      THEN /\ last'.result = "DuplicateKey"
                           /\ LedgerUnchanged
                      ELSE \/ tx'[1].pc = "settle" /\ tx'[1].ref = id
                           \/ /\ last'.result = "ok"
                              /\ grants'[id].status = "confirmed"
       /\ (Returns(1, "ConfirmGrant") /\ tx[1].pc = "settle")
          => /\ last'.result = "ok"
             /\ grants'[tx[1].ref].status = "confirmed"]_vars

\* a confirmation was refused for a grant that is still pending: its
\* purchase had recorded a settlement, and the partition is in debt again
\* with balance left
ConfirmSucceedsUnlessResettlingWitness ==
    /\ last # NoReturn
    /\ last.kind = "ConfirmGrant" /\ last.result = "DuplicateKey"
    /\ last.ref \in DOMAIN grants
    /\ grants[last.ref].status = "pending"
    /\ SettlementTaken(last.part, last.ref)
    /\ \A g \in DOMAIN grants : grants[g].logIndex = NoLog

\* C35: every ledger action is all-or-nothing: a call that returns an error
\* leaves grants, operations and operation-grant rows as they were and its
\* transaction holds nothing any more, also when the error is raised inside
\* SettleDebt after the grant and operation rows were written; the
\* committed tables change only in the step in which a call commits (or a
\* burn is reverted on chain)
AllOrNothing ==
    [][/\ \A p \in Procs :
             (Returns(p, last'.kind) /\ last'.result # "ok")
             => /\ LedgerUnchanged
                /\ tx'[p] = IdleTx
       /\ ~LedgerUnchanged
          => \/ \E p \in Procs : Returns(p, last'.kind) /\ last'.result = "ok"
             \/ \E g \in DOMAIN grants : FailGrant(g)]_vars

\* ConfirmGrant failed inside SettleDebt: the confirmation it had written
\* is gone, the grant is pending without a grant_confirm operation
AllOrNothingWitness ==
    /\ last # NoReturn
    /\ last.kind = "ConfirmGrant" /\ last.result = "DuplicateKey"
    /\ last.ref \in DOMAIN grants
    /\ grants[last.ref].status = "pending" /\ grants[last.ref].logIndex = NoLog
    /\ <<"credit_tracker", last.ref, "grant_confirm">> \notin Keys(ops)
    /\ <<"credit_tracker", last.ref, "debt_settlement">> \in Keys(ops)
    /\ \A r \in DOMAIN opGrants : r.type # "grant_confirm"

\* the transactions in flight that have written status confirmed to grant g
Confirming(g) ==
    {p \in Procs : /\ g \in DOMAIN tx[p].w
                   /\ tx[p].w[g].status = "confirmed"
                   /\ g \in DOMAIN grants => grants[g].status = "pending"}

\* C36: a grant's status only changes from pending to confirmed or from
\* pending to failed, a confirmed or failed grant keeps its status, no
\* grant is deleted, and a grant is confirmed at most once: the step that
\* confirms it records its one grant_confirm operation, and two overlapping
\* ConfirmGrant calls never both hold the confirmation of the same grant
StatusOnlyLeavesPending ==
    [][/\ \A g \in DOMAIN grants :
             /\ g \in DOMAIN grants'
             /\ grants'[g].status # grants[g].status
                => /\ grants[g].status = "pending"
                   /\ grants'[g].status \in {"confirmed", "failed"}
                   /\ grants'[g].status = "confirmed"
                      => /\ <<"credit_tracker", g, "grant_confirm">> \notin Keys(ops)
                         /\ <<"credit_tracker", g, "grant_confirm">> \in Keys(ops')
       /\ \A g \in DOMAIN grants' : Cardinality(Confirming(g)') <= 1
       /\ \A o1, o2 \in ops' :
             (o1.type = "grant_confirm" /\ OpKey(o1) = OpKey(o2)) => o1 = o2]_vars

\* two overlapping confirmations of one tx_hash have both returned: the
\* pending grant is confirmed under one log index, and the other call
\* found no pending grant and inserted a confirmed grant of its own
StatusOnlyLeavesPendingWitness ==
    /\ \E g, h \in DOMAIN grants :
          /\ g # h
          /\ grants[g].status = "confirmed" /\ grants[h].status = "confirmed"
          /\ grants[g].txHash = grants[h].txHash
          /\ grants[g].logIndex # grants[h].logIndex
          /\ <<"credit_tracker", g, "grant_purchase">> \in Keys(ops)
          /\ <<"credit_tracker", h, "grant_purchase">> \notin Keys(ops)
    /\ \E g \in DOMAIN grants : grants[g].status = "failed"

\* C37: a ledger call on one partition (license, asset) leaves the grants
\* of every other partition unchanged and inserts grants into its own
\* partition only, and every operation-grant row references a grant whose
\* partition is that of the row's operation
PartitionsIndependent ==
    [][/\ \A p \in Procs :
             Returns(p, last'.kind)
             => /\ \A g \in DOMAIN grants :
                      grants[g].part # last'.part => grants'[g] = grants[g]
                /\ \A g \in DOMAIN grants' \ DOMAIN grants :
                      grants'[g].part = last'.part
       /\ \A r \in DOMAIN opGrants' :
             \E o \in ops' : /\ OpKey(o) = <<r.app, r.ref, r.type>>
                             /\ r.grant \in DOMAIN grants'
                             /\ grants'[r.grant].part = o.part]_vars

\* both partitions hold a grant; a deduction on one partition has debited
\* its grant, and the grant of the other partition is whole
PartitionsIndependentWitness ==
    \E g, h \in DOMAIN grants :
       /\ grants[g].part # grants[h].part
       /\ grants[h].remaining = grants[h].initial
       /\ grants[g].remaining < grants[g].initial
       /\ \E r \in DOMAIN opGrants : r.type = "deduction" /\ r.grant = g

\* the sum of total_amount of the partition's operations of one type
TotalOfType(part, type) ==
    LET S == {o \in ops : o.part = part /\ o.type = type}
    IN SumOver(S, [o \in S |-> o.total])

\* the sum of one column over all grants of the partition, of any status
GrantSum(part, column) ==
    LET S == {g \in DOMAIN grants : grants[g].part = part}
    IN SumOver(S, [g \in S |-> grants[g][column]])

\* C39: in every reachable state of a partition the sum of remaining_amount
\* over all of its grants equals the sum of their initial_amount minus the
\* total of its deduction operations plus the total of its refund
\* operations, under every interleaving of the ledger calls
CreditsConserved ==
    \A part \in {grants[g].part : g \in DOMAIN grants} :
       GrantSum(part, "remaining") =
          GrantSum(part, "initial") - TotalOfType(part, "deduction")
                                    + TotalOfType(part, "refund")

\* C40 as stated: when ConfirmGrant matches a pending grant, the
\* grant_confirm operation's total_amount and its row's amount_used equal
\* that grant's initial_amount, for every amount the event carries
ConfirmRecordsInitial ==
    [][\A p \in Procs :
          Succeeds(p, "ConfirmGrant") =>
             \A c \in ConfirmArgs(p) :
                SpecPending(c.part, c.txHash) # {} =>
                   LET id == Oldest(SpecPending(c.part, c.txHash))
                   IN RecordsConfirmOf(id, c.part, grants[id].initial)]_vars

\* C40: when ConfirmGrant matches a pending grant, the grant_confirm
\* operation's total_amount and its row's amount_used equal the amount
\* carried by the confirmation event, whatever the grant's initial_amount,
\* which stays as it was
ConfirmRecordsEventAmount ==
    [][\A p \in Procs :
          Succeeds(p, "ConfirmGrant") =>
             \A c \in ConfirmArgs(p) :
                SpecPending(c.part, c.txHash) # {} =>
                   LET id == Oldest(SpecPending(c.part, c.txHash))
                   IN /\ RecordsConfirmOf(id, c.part, c.amount)
                      /\ grants'[id].initial = grants[id].initial]_vars

\* a grant bought with amount 1 was confirmed by an event carrying 2: the
\* grant_confirm operation and its row say 2, the grant is one of 1
ConfirmRecordsEventAmountWitness ==
    \E g \in DOMAIN grants :
       /\ grants[g].status = "confirmed" /\ grants[g].initial = 1
       /\ [app |-> "credit_tracker", ref |-> g, type |-> "grant_purchase",
           part |-> grants[g].part, total |-> 1] \in ops
       /\ [app |-> "credit_tracker", ref |-> g, type |-> "grant_confirm",
           part |-> grants[g].part, total |-> 2] \in ops
       /\ [app |-> "credit_tracker", ref |-> g, type |-> "grant_confirm",
           grant |-> g, amount |-> 2] \in DOMAIN opGrants

=============================================================================
